---------------------------- MODULE Spec2Model ----------------------------
(***************************************************************************)
(* Herbie Runner: the caravan / terrain / obstacle simulation and the      *)
(* game state machine of js/game.js (src/unnamed/part_001), js/hikers.js,  *)
(* js/terrain.js, js/obstacles.js, js/input.js and js/ui.js.               *)
(*                                                                         *)
(* The JavaScript numbers are IEEE doubles; the model is fixed point:      *)
(*   lengths (x, y, camera, distance, widths)   in 1/100 px   ("cpx")      *)
(*   speeds, boosts, clearProgress, multipliers in 1/1000                  *)
(*   times (deltaTime, pulseTime)               in milliseconds            *)
(*   score                                      in 1/100                   *)
(* Products are divided back with \div, as the comments at each use say.   *)
(***************************************************************************)
EXTENDS Integers, Sequences, FiniteSets, TLC

VARIABLES
    gameState,      \* Game.gameState: "title" | "playing" | "paused" | "gameover"
    state,          \* Game.state scalars: distance, score, flowMultiplier, runStartX, obstaclesCleared
    hikers,         \* HikerSystem.hikers: sequence of hiker records (index 0 is hikers[1])
    terrain,        \* Terrain: cameraX, segments, nextSegmentX, canvasWidth, baseY
    obstacles,      \* ObstacleSystem: obstacles, nextObstacleDistance, obstaclesCleared
    inputEnabled,   \* InputSystem.isEnabled (the pointerdown listener is attached)
    bestScore,      \* localStorage 'herbie-best-score': Null when the key is absent
    offloadsUsed,   \* bound bookkeeping: follower offloads in this run
    shortUsed,      \* bound bookkeeping: frames shorter than the clamp in this run
    runs,           \* bound bookkeeping: runs ended so far
    explore,        \* bound bookkeeping: how far and how densely this run is explored
    ui              \* UISystem onboarding and HUD, the palette's flowShift, the audio's
                    \* harmonic gain, and the age of the last pushes to them

vars == <<gameState, state, hikers, terrain, obstacles, inputEnabled,
          bestScore, offloadsUsed, shortUsed, runs, explore, ui>>

\* everything but the presentation
coreVars == <<gameState, state, hikers, terrain, obstacles, inputEnabled,
            bestScore, offloadsUsed, shortUsed, runs, explore>>

simvars == <<state, hikers, terrain, obstacles>>

(***************************************************************************)
(* Bounds of the model.                                                    *)
(***************************************************************************)
\* A run is explored in one of two ways, chosen when it starts:
\*   "long":  up to MaxDistancePx px, frames at the cap, no follower offload
\*            (the obstacles, the camera, the terrain, the end of the run);
\*   "mixed": up to MaxMixedPx px, with up to MaxOffloads follower offloads
\*            and up to MaxShort frames shorter than the cap (the three
\*            spacing bands, the boosts and their decay).
Explorations == {"long", "mixed"}
MaxDistancePx == 640
MaxMixedPx == 130
\* a run taken up late ("late") is followed from LateStartPx to MaxLatePx of
\* distance, px
LateStartPx == 3440
MaxLatePx == 3860
MaxOffloads == 2
MaxShort == 1
\* taps on hikers are explored for the hikers of index 0..MaxTapIndex
MaxTapIndex == 2
\* runs that are simulated; a later run is started but not ticked
MaxRuns == 1
\* canvas size in px, as getBoundingClientRect reports it
CanvasWidthPx == 100
CanvasHeightPx == 200

(***************************************************************************)
(* Program constants.                                                      *)
(***************************************************************************)
\* cpx per px
Px == 100
\* HikerSystem.spacing and maxStretch, px
Spacing == 60
MaxStretch == 220
\* hiker.size, px
HikerSize == 16
\* startGame: hikers.init(200, ...)
StartX == 200
\* Game.loop: the deltaTime cap, ms
MaxDeltaMs == 100
\* offloadHiker: the boosts, 1/1000
OffloadSlow == -200
OffloadBoost == 400
\* update: |offloadBoost| below this snaps to 0, 1/1000
BoostSnap == 10
\* triggerPulse: pulseTime, ms
PulseMs == 800
\* Terrain.segmentWidth, px
SegmentWidth == 150
\* Terrain.init: initial segments
InitialSegments == 10
\* ObstacleSystem: spawn rates, first threshold and jitter range, px
BaseSpawnRate == 180
MinSpawnRate == 120
FirstSpawn == 400
JitterRange == 80
\* checkCollision and hitTest paddings, px
CollisionPadding == 5
HitboxPadding == 20

\* sentinels: JavaScript's null (getYAtX, hitTest, localStorage.getItem) and NaN
Null == -1
NaN == -2

Min(a, b) == IF a < b THEN a ELSE b
Max(a, b) == IF a > b THEN a ELSE b
Abs(a) == IF a < 0 THEN -a ELSE a

\* frame gaps (now - lastTime, ms) the browser delivers: a short frame and a
\* stall (backgrounded tab), which the loop clamps
ElapsedMs == {40, 250}
\* Math.random() draws for the obstacle type, 1/1000
Rands == {100, 500, 800}
\* Math.random() * 80 draws for the spawn jitter, cpx
Jitters == {0, JitterRange * Px - 1}

-----------------------------------------------------------------------------
(***************************************************************************)
(* HikerSystem (js/hikers.js)                                              *)
(***************************************************************************)
BaseSpeeds == <<1000, 1150, 1300, 1450, 1600>>

\* HikerSystem.init(startX, startY)
HikersInit(startX, startY) ==
    [i \in 1..Len(BaseSpeeds) |->
        [index        |-> i - 1,
         baseSpeed    |-> BaseSpeeds[i],
         currentSpeed |-> BaseSpeeds[i],
         x            |-> startX - (i - 1) * Spacing * Px,
         y            |-> startY,
         targetY      |-> startY,
         size         |-> HikerSize * Px,
         isWaiting    |-> FALSE,
         offloadBoost |-> 0,
         pulseTime    |-> 0]]

\* the hiker literals of init (lines 17-35) for hikers standing at the
\* positions xs (cpx), front to back, on the ground at startY
HikersAt(xs, startY) ==
    [i \in 1..Len(xs) |->
        [index        |-> i - 1,
         baseSpeed    |-> BaseSpeeds[i],
         currentSpeed |-> BaseSpeeds[i],
         x            |-> xs[i],
         y            |-> startY,
         targetY      |-> startY,
         size         |-> HikerSize * Px,
         isWaiting    |-> FALSE,
         offloadBoost |-> 0,
         pulseTime    |-> 0]]

\* adjacent spacings (cpx) a caravan is tried with: touching, ideal, around
\* maxStretch, and far apart
FnGaps == {0, 60 * Px, 180 * Px, 219 * Px, 220 * Px, 220 * Px + 1, 300 * Px}

\* Terrain.getYAtX(x): the segment's y, or Null
GetYAtX(ter, x) ==
    LET hit == {k \in 1..Len(ter.segments) :
                   /\ x >= ter.segments[k].x
                   /\ x < ter.segments[k].x + SegmentWidth * Px}
    IN IF hit = {} THEN Null
       ELSE LET k == CHOOSE m \in hit : \A n \in hit : m <= n
            IN IF ter.segments[k].hasGap THEN Null ELSE ter.baseY

\* Terrain.isOnGround(x, y)
IsOnGround(ter, x, y) ==
    LET hit == {k \in 1..Len(ter.segments) :
                   /\ x >= ter.segments[k].x
                   /\ x < ter.segments[k].x + SegmentWidth * Px}
    IN IF hit = {} THEN FALSE
       ELSE LET k == CHOOSE m \in hit : \A n \in hit : m <= n
            IN IF ter.segments[k].hasGap THEN FALSE
               ELSE Abs(y - ter.baseY) < 5 * Px

\* SpeedRule with the spacing constraint left out: every follower walks at
\* its own speed
SpeedRuleUnconstrained(h, aheadX, herbieSpeed) ==
    IF h.index > 0 THEN <<FALSE, h.baseSpeed + h.offloadBoost>>
    ELSE <<FALSE, herbieSpeed>>

\* the speed rule of update's forEach body (lines 48-71): <<isWaiting, currentSpeed>>
\* aheadX is hikers[index-1].x as already moved in this tick
SpeedRule(h, aheadX, herbieSpeed) ==
    LET targetSpeed == Min(h.baseSpeed + h.offloadBoost, herbieSpeed)
        distance    == aheadX - h.x
    IN IF h.index > 0
       THEN IF distance * 10 < Spacing * Px * 8
            THEN <<TRUE, Max(0, (targetSpeed * distance) \div (Spacing * Px))>>
            ELSE IF distance * 10 > Spacing * Px * 15
                 THEN <<FALSE, (h.baseSpeed * 12) \div 10>>
                 ELSE <<FALSE, targetSpeed>>
       ELSE <<FALSE, herbieSpeed>>

\* the decay of offloadBoost (lines 102-109); dt in ms, 0.5/s
DecayBoost(boost, dt) ==
    IF boost # 0
    THEN LET direction == IF boost > 0 THEN -1 ELSE 1
             b == boost + direction * (dt \div 2)
         IN IF Abs(b) < BoostSnap THEN 0 ELSE b
    ELSE 0

\* UpdateHiker that assigns the ground query to targetY without the null test
UpdateHikerNoHold(h, aheadX, herbieSpeed, dt, ter) ==
    LET sr      == SpeedRule(h, aheadX, herbieSpeed)
        newX    == h.x + (sr[2] * dt) \div 100
        tY      == GetYAtX(ter, newX)
        newY    == h.y + ((tY - h.y) * 5 * dt) \div 1000
    IN [h EXCEPT !.isWaiting    = sr[1],
                 !.currentSpeed = sr[2],
                 !.x            = newX,
                 !.targetY      = tY,
                 !.y            = newY,
                 !.offloadBoost = DecayBoost(h.offloadBoost, dt),
                 !.pulseTime    = IF h.pulseTime > 0 THEN Max(0, h.pulseTime - dt)
                                  ELSE h.pulseTime]

\* one iteration of update's forEach for hiker h
UpdateHiker(h, aheadX, herbieSpeed, dt, ter) ==
    LET sr      == SpeedRule(h, aheadX, herbieSpeed)
        \* x += currentSpeed * 100 * deltaTime: (1/1000) * 100 px * ms/1000 = speed*dt/100 cpx
        newX    == h.x + (sr[2] * dt) \div 100
        groundY == GetYAtX(ter, newX)
        tY      == IF groundY # Null THEN groundY ELSE h.targetY
        \* y += (targetY - y) * 5 * deltaTime
        newY    == h.y + ((tY - h.y) * 5 * dt) \div 1000
    IN [h EXCEPT !.isWaiting    = sr[1],
                 !.currentSpeed = sr[2],
                 !.x            = newX,
                 !.targetY      = tY,
                 !.y            = newY,
                 !.offloadBoost = DecayBoost(h.offloadBoost, dt),
                 !.pulseTime    = IF h.pulseTime > 0 THEN Max(0, h.pulseTime - dt)
                                  ELSE h.pulseTime]

\* UpdatePrefix in which hiker n reads the x the hiker ahead had before the tick
RECURSIVE UpdatePrefixStale(_, _, _, _, _)
UpdatePrefixStale(hk, n, herbieSpeed, dt, ter) ==
    IF n = 0 THEN << >>
    ELSE Append(UpdatePrefixStale(hk, n - 1, herbieSpeed, dt, ter),
                UpdateHiker(hk[n], IF n = 1 THEN 0 ELSE hk[n - 1].x,
                            herbieSpeed, dt, ter))

\* the first n hikers after update: forEach runs in index order, so hiker n
\* reads the x the hiker ahead has just been given
RECURSIVE UpdatePrefix(_, _, _, _, _)
UpdatePrefix(hk, n, herbieSpeed, dt, ter) ==
    IF n = 0 THEN << >>
    ELSE LET p == UpdatePrefix(hk, n - 1, herbieSpeed, dt, ter)
         IN Append(p, UpdateHiker(hk[n], IF n = 1 THEN 0 ELSE p[n - 1].x,
                                  herbieSpeed, dt, ter))

\* HikerSystem.update(deltaTime, terrain)
HikersUpdate(hk, dt, ter) ==
    UpdatePrefix(hk, Len(hk), hk[1].baseSpeed + hk[1].offloadBoost, dt, ter)

\* HikerSystem.triggerPulse()
TriggerPulse(hk) == [i \in 1..Len(hk) |-> [hk[i] EXCEPT !.pulseTime = PulseMs]]

\* OffloadHiker without the early return for the leader's own index
OffloadHikerNoGuard(hk, hikerIndex) ==
    LET slowed == [hk EXCEPT ![hikerIndex + 1].offloadBoost = OffloadSlow]
    IN TriggerPulse([slowed EXCEPT ![1].offloadBoost =
                        Max(slowed[1].offloadBoost, OffloadBoost)])

\* OffloadHiker with the leader's boost added instead of capped by max
OffloadHikerAdditive(hk, hikerIndex) ==
    IF hikerIndex = 0 THEN hk
    ELSE TriggerPulse(
           [hk EXCEPT ![hikerIndex + 1].offloadBoost = OffloadSlow,
                      ![1].offloadBoost = hk[1].offloadBoost + OffloadBoost])

\* HikerSystem.offloadHiker(hikerIndex); hikerIndex is 0-based
OffloadHiker(hk, hikerIndex) ==
    IF hikerIndex = 0 THEN hk
    ELSE TriggerPulse(
           [hk EXCEPT ![hikerIndex + 1].offloadBoost = OffloadSlow,
                      ![1].offloadBoost = Max(hk[1].offloadBoost, OffloadBoost)])

\* GetFlowMultiplier with the total divided by the number of hikers instead
\* of the number of adjacent pairs
GetFlowMultiplierPerHiker(hk) ==
    LET RECURSIVE Total(_)
        Total(i) == IF i < 2 THEN 0 ELSE Total(i - 1) + (hk[i - 1].x - hk[i].x)
    IN IF Len(hk) = 0 THEN NaN
       ELSE LET avgSpacing == Total(Len(hk)) \div Len(hk)
                deviation  == Abs(avgSpacing - Spacing * Px)
                multiplier == Max(1000, 3000 - (deviation * 1000) \div (Spacing * Px))
            IN Min(3000, multiplier)

\* HikerSystem.getFlowMultiplier(), 1/1000; NaN when there is no pair (0/0)
GetFlowMultiplier(hk) ==
    LET count == IF Len(hk) = 0 THEN 0 ELSE Len(hk) - 1
        RECURSIVE Total(_)
        Total(i) == IF i < 2 THEN 0 ELSE Total(i - 1) + (hk[i - 1].x - hk[i].x)
    IN IF count = 0 THEN NaN
       ELSE LET avgSpacing == Total(Len(hk)) \div count
                deviation  == Abs(avgSpacing - Spacing * Px)
                multiplier == Max(1000, 3000 - (deviation * 1000) \div (Spacing * Px))
            IN Min(3000, multiplier)

\* IsTooStretched with the comparison distance >= maxStretch
IsTooStretchedInclusive(hk) ==
    \E i \in 2..Len(hk) : hk[i - 1].x - hk[i].x >= MaxStretch * Px

\* HikerSystem.isTooStretched()
IsTooStretched(hk) ==
    \E i \in 2..Len(hk) : hk[i - 1].x - hk[i].x > MaxStretch * Px

-----------------------------------------------------------------------------
(***************************************************************************)
(* Terrain (js/terrain.js); the decorative parallax layers are left out.   *)
(***************************************************************************)
\* new Terrain(): canvasWidth 800, baseY 0.7 until init
TerrainNew ==
    [cameraX |-> 0, segments |-> << >>, nextSegmentX |-> 0,
     canvasWidth |-> 800 * Px, baseY |-> 70]

\* GenerateSegment that starts the next segment one pixel early
GenerateSegmentOverlapping(ter) ==
    [ter EXCEPT !.segments = Append(@, [x |-> ter.nextSegmentX, hasGap |-> FALSE]),
                !.nextSegmentX = @ + SegmentWidth * Px - Px]

\* Terrain.generateSegment()
GenerateSegment(ter) ==
    [ter EXCEPT !.segments = Append(@, [x |-> ter.nextSegmentX, hasGap |-> FALSE]),
                !.nextSegmentX = @ + SegmentWidth * Px]

RECURSIVE GenerateN(_, _)
GenerateN(ter, n) == IF n = 0 THEN ter ELSE GenerateN(GenerateSegment(ter), n - 1)

\* while (this.nextSegmentX < rightEdge) this.generateSegment()
RECURSIVE GenerateUntil(_, _)
GenerateUntil(ter, rightEdge) ==
    IF ter.nextSegmentX < rightEdge
    THEN GenerateUntil(GenerateSegment(ter), rightEdge)
    ELSE ter

\* Terrain.init(canvasWidth, canvasHeight), both in px
TerrainInit(w, h) ==
    GenerateN([cameraX |-> 0, segments |-> << >>, nextSegmentX |-> 0,
               canvasWidth |-> w * Px, baseY |-> h * 70],
              InitialSegments)

\* Terrain.update taking the branch for herbieX === null: the camera scrolls
\* at scrollSpeed = 80 px/s whatever the leader does
TerrainUpdateAutoScroll(ter, dt, herbieX) ==
    LET cam     == ter.cameraX + (80 * Px * dt) \div 1000
        grown   == GenerateUntil([ter EXCEPT !.cameraX = cam],
                                 cam + ter.canvasWidth + 200 * Px)
    IN [grown EXCEPT !.segments =
           SelectSeq(grown.segments,
                     LAMBDA seg : seg.x + SegmentWidth * Px > cam - 100 * Px)]

\* Terrain.update(deltaTime, distance, herbieX) with herbieX given
TerrainUpdate(ter, dt, herbieX) ==
    LET targetX == Max(0, herbieX - (ter.canvasWidth * 3) \div 10)
        \* cameraX += (targetX - cameraX) * min(1, deltaTime * 4)
        cam     == ter.cameraX + ((targetX - ter.cameraX) * Min(1000, dt * 4)) \div 1000
        grown   == GenerateUntil([ter EXCEPT !.cameraX = cam],
                                 cam + ter.canvasWidth + 200 * Px)
    IN [grown EXCEPT !.segments =
           SelectSeq(grown.segments,
                     LAMBDA seg : seg.x + SegmentWidth * Px > cam - 100 * Px)]

-----------------------------------------------------------------------------
(***************************************************************************)
(* ObstacleSystem (js/obstacles.js); glowPhase and lastClearTime, which    *)
(* only the renderer reads, are left out.                                  *)
(***************************************************************************)
ObstaclesNew == [obstacles |-> << >>, nextObstacleDistance |-> 0, obstaclesCleared |-> 0]

\* ObstacleSystem.init() that leaves the obstacle list of the last run in place
ObstaclesInitKeepList ==
    [obstacles |-> obstacles.obstacles, nextObstacleDistance |-> FirstSpawn * Px,
     obstaclesCleared |-> 0]

\* ObstacleSystem.init()
ObstaclesInit ==
    [obstacles |-> << >>, nextObstacleDistance |-> FirstSpawn * Px, obstaclesCleared |-> 0]

\* difficulty = Math.min(1.0, distance * 0.0002), 1/1000; distance in cpx
Difficulty(distance) == Min(1000, distance \div 500)

\* ObstacleType without the early band: the mid-game weights from distance 0
ObstacleTypeNoEarlyBand(difficulty, rand) ==
    IF difficulty < 500
    THEN IF rand < 250 THEN "gap"
         ELSE IF rand < 500 THEN "wall"
         ELSE IF rand < 750 THEN "barrier" ELSE "platform"
    ELSE IF rand < 200 THEN "gap"
         ELSE IF rand < 450 THEN "wall"
         ELSE IF rand < 700 THEN "barrier" ELSE "platform"

\* ObstacleType with the late band using the mid-game weights
ObstacleTypeLateAsMid(difficulty, rand) ==
    IF difficulty < 200
    THEN IF rand < 400 THEN "wall" ELSE IF rand < 700 THEN "barrier" ELSE "gap"
    ELSE IF rand < 250 THEN "gap"
         ELSE IF rand < 500 THEN "wall"
         ELSE IF rand < 750 THEN "barrier" ELSE "platform"

\* the type choice of spawnObstacle (lines 58-67); rand in 1/1000
ObstacleType(difficulty, rand) ==
    IF difficulty < 200
    THEN IF rand < 400 THEN "wall" ELSE IF rand < 700 THEN "barrier" ELSE "gap"
    ELSE IF difficulty < 500
         THEN IF rand < 250 THEN "gap"
              ELSE IF rand < 500 THEN "wall"
              ELSE IF rand < 750 THEN "barrier" ELSE "platform"
         ELSE IF rand < 200 THEN "gap"
              ELSE IF rand < 450 THEN "wall"
              ELSE IF rand < 700 THEN "barrier" ELSE "platform"

\* the obstacle literal of each type (lines 80-141) on the segment at segX
MakeObstacle(type, segX, segY) ==
    LET common == [type |-> type, cleared |-> FALSE, clearing |-> FALSE,
                   clearProgress |-> 0, segment |-> Null]
    IN CASE type = "gap" ->
              [common EXCEPT !.segment = segX] @@
              [x |-> segX, y |-> segY, width |-> SegmentWidth * Px, height |-> 20 * Px]
         [] type = "wall" ->
              common @@
              [x |-> segX + (SegmentWidth * Px * 3) \div 10, y |-> segY - 60 * Px,
               width |-> 30 * Px, height |-> 60 * Px]
         [] type = "platform" ->
              common @@
              [x |-> segX + (SegmentWidth * Px * 3) \div 10, y |-> segY - 50 * Px,
               width |-> 80 * Px, height |-> 50 * Px]
         [] type = "barrier" ->
              common @@
              [x |-> segX + (SegmentWidth * Px * 4) \div 10, y |-> segY - 80 * Px,
               width |-> 20 * Px, height |-> 80 * Px]

\* set hasGap of the segment object that starts at segX, if the terrain still holds it
SetGap(ter, segX, flag) ==
    [ter EXCEPT !.segments =
        [k \in 1..Len(ter.segments) |->
            IF ter.segments[k].x = segX
            THEN [ter.segments[k] EXCEPT !.hasGap = flag]
            ELSE ter.segments[k]]]

\* SpawnObstacle that falls back on the last segment when none covers spawnX
SpawnObstacleOnLast(obs, ter, distance, rand) ==
    LET type   == ObstacleType(Difficulty(distance), rand)
        spawnX == ter.cameraX + ter.canvasWidth + 200 * Px
        hit    == {k \in 1..Len(ter.segments) :
                      /\ spawnX >= ter.segments[k].x
                      /\ spawnX < ter.segments[k].x + SegmentWidth * Px}
        k      == IF hit = {} THEN Len(ter.segments)
                  ELSE CHOOSE m \in hit : \A n \in hit : m <= n
        seg    == ter.segments[k]
    IN <<Append(obs, MakeObstacle(type, seg.x, ter.baseY)),
         IF type = "gap" THEN SetGap(ter, seg.x, TRUE) ELSE ter>>

\* ObstacleSystem.spawnObstacle(terrain, distance): <<obstacle list, terrain>>
SpawnObstacle(obs, ter, distance, rand) ==
    LET type   == ObstacleType(Difficulty(distance), rand)
        spawnX == ter.cameraX + ter.canvasWidth + 200 * Px
        hit    == {k \in 1..Len(ter.segments) :
                      /\ spawnX >= ter.segments[k].x
                      /\ spawnX < ter.segments[k].x + SegmentWidth * Px}
    IN IF hit = {} THEN <<obs, ter>>
       ELSE LET k   == CHOOSE m \in hit : \A n \in hit : m <= n
                seg == ter.segments[k]
            IN <<Append(obs, MakeObstacle(type, seg.x, ter.baseY)),
                 IF type = "gap" THEN SetGap(ter, seg.x, TRUE) ELSE ter>>

\* AdvanceClearing that advances every obstacle, tapped or not
AdvanceClearingUntapped(o, dt) ==
    LET p == o.clearProgress + dt * 2
    IN [o EXCEPT !.clearProgress = p,
                 !.cleared = IF p >= 1000 THEN TRUE ELSE o.cleared]

\* AdvanceClearing that never marks the obstacle cleared
AdvanceClearingNoMark(o, dt) ==
    IF o.clearing
    THEN [o EXCEPT !.clearProgress = Min(1000, o.clearProgress + dt * 2)]
    ELSE o

\* the forEach of update (lines 33-43): clearing obstacles advance at 2.0/s
AdvanceClearing(o, dt) ==
    IF o.clearing
    THEN LET p == o.clearProgress + dt * 2
         IN [o EXCEPT !.clearProgress = p,
                      !.cleared = IF p >= 1000 THEN TRUE ELSE o.cleared]
    ELSE o

\* the filter of update (lines 46-49)
KeepObstacle(o, cameraX) == ~o.cleared /\ o.x > cameraX - 200 * Px

\* ObstaclesUpdate whose next threshold leaves the spawn rate out
ObstaclesUpdateNoRate(ob, dt, ter, distance, rand, jitter) ==
    LET trigger == distance > ob.nextObstacleDistance
        sp      == IF trigger THEN SpawnObstacle(ob.obstacles, ter, distance, rand)
                   ELSE <<ob.obstacles, ter>>
        next    == IF trigger THEN distance + jitter
                   ELSE ob.nextObstacleDistance
        aged    == [i \in 1..Len(sp[1]) |-> AdvanceClearing(sp[1][i], dt)]
    IN [ob  |-> [ob EXCEPT !.obstacles =
                    SelectSeq(aged, LAMBDA o : KeepObstacle(o, ter.cameraX)),
                           !.nextObstacleDistance = next],
        ter |-> sp[2]]

\* ObstacleSystem.update(deltaTime, terrain, distance): [ob, ter]
ObstaclesUpdate(ob, dt, ter, distance, rand, jitter) ==
    LET trigger == distance > ob.nextObstacleDistance
        sp      == IF trigger THEN SpawnObstacle(ob.obstacles, ter, distance, rand)
                   ELSE <<ob.obstacles, ter>>
        \* spawnRate = baseSpawnRate - (baseSpawnRate - minSpawnRate) * difficulty
        spawnRate == BaseSpawnRate * Px
                     - ((BaseSpawnRate - MinSpawnRate) * Px * Difficulty(distance)) \div 1000
        next    == IF trigger THEN distance + spawnRate + jitter
                   ELSE ob.nextObstacleDistance
        aged    == [i \in 1..Len(sp[1]) |-> AdvanceClearing(sp[1][i], dt)]
    IN [ob  |-> [ob EXCEPT !.obstacles =
                    SelectSeq(aged, LAMBDA o : KeepObstacle(o, ter.cameraX)),
                           !.nextObstacleDistance = next],
        ter |-> sp[2]]

\* ClearObstacle without the early return for a cleared or clearing obstacle
ClearObstacleUnguarded(ob, ter, i) ==
    LET o == ob.obstacles[i]
    IN [ret |-> TRUE,
        ob  |-> [ob EXCEPT !.obstacles[i].clearing = TRUE,
                           !.obstaclesCleared = @ + 1],
        ter |-> IF o.type = "gap" /\ o.segment # Null
                THEN SetGap(ter, o.segment, FALSE) ELSE ter]

\* ClearObstacle that leaves the gap flag of the segment set
ClearObstacleKeepGap(ob, ter, i) ==
    LET o == ob.obstacles[i]
    IN IF o.cleared \/ o.clearing
       THEN [ret |-> FALSE, ob |-> ob, ter |-> ter]
       ELSE [ret |-> TRUE,
             ob  |-> [ob EXCEPT !.obstacles[i].clearing = TRUE,
                                !.obstaclesCleared = @ + 1],
             ter |-> ter]

\* ObstacleSystem.clearObstacle(obstacle) on obstacles[i]: [ret, ob, ter]
ClearObstacle(ob, ter, i) ==
    LET o == ob.obstacles[i]
    IN IF o.cleared \/ o.clearing
       THEN [ret |-> FALSE, ob |-> ob, ter |-> ter]
       ELSE [ret |-> TRUE,
             ob  |-> [ob EXCEPT !.obstacles[i].clearing = TRUE,
                                !.obstaclesCleared = @ + 1],
             ter |-> IF o.type = "gap" /\ o.segment # Null
                     THEN SetGap(ter, o.segment, FALSE) ELSE ter]

\* the box test of checkCollision for one obstacle (lines 185-197)
Collides(o, herbieX, herbieY, herbieSize) ==
    LET herbieLeft   == herbieX - herbieSize \div 2 + CollisionPadding * Px
        herbieRight  == herbieX + herbieSize \div 2 - CollisionPadding * Px
        herbieTop    == herbieY - herbieSize \div 2 + CollisionPadding * Px
        herbieBottom == herbieY + herbieSize \div 2 - CollisionPadding * Px
        obsLeft      == o.x
        obsRight     == o.x + o.width
        obsTop       == o.y - o.height
        obsBottom    == o.y
    IN /\ herbieRight > obsLeft /\ herbieLeft < obsRight
       /\ herbieBottom > obsTop /\ herbieTop < obsBottom

\* CheckCollision without the skip of cleared and clearing obstacles
CheckCollisionNoSkip(obs, herbieX, herbieY, herbieSize) ==
    LET hit == {i \in 1..Len(obs) :
                   /\ obs[i].type # "gap"
                   /\ Collides(obs[i], herbieX, herbieY, herbieSize)}
    IN IF hit = {} THEN 0 ELSE CHOOSE m \in hit : \A n \in hit : m <= n

\* ObstacleSystem.checkCollision: index of the first colliding obstacle, 0 for null
CheckCollision(obs, herbieX, herbieY, herbieSize) ==
    LET hit == {i \in 1..Len(obs) :
                   /\ ~(obs[i].cleared \/ obs[i].clearing)
                   /\ obs[i].type # "gap"
                   /\ Collides(obs[i], herbieX, herbieY, herbieSize)}
    IN IF hit = {} THEN 0 ELSE CHOOSE m \in hit : \A n \in hit : m <= n

\* hitTest with checkCollision's skip of gaps added
HitTestSkipGaps(obs, worldX, worldY) ==
    LET hit == {i \in 1..Len(obs) :
                   /\ ~(obs[i].cleared \/ obs[i].clearing)
                   /\ obs[i].type # "gap"
                   /\ worldX >= obs[i].x - HitboxPadding * Px
                   /\ worldX <= obs[i].x + obs[i].width + HitboxPadding * Px
                   /\ worldY >= obs[i].y - obs[i].height - HitboxPadding * Px
                   /\ worldY <= obs[i].y + HitboxPadding * Px}
    IN IF hit = {} THEN 0 ELSE CHOOSE m \in hit : \A n \in hit : m <= n

\* ObstacleSystem.hitTest(worldX, worldY): index of the first hit obstacle, 0 for null
HitTest(obs, worldX, worldY) ==
    LET hit == {i \in 1..Len(obs) :
                   /\ ~(obs[i].cleared \/ obs[i].clearing)
                   /\ worldX >= obs[i].x - HitboxPadding * Px
                   /\ worldX <= obs[i].x + obs[i].width + HitboxPadding * Px
                   /\ worldY >= obs[i].y - obs[i].height - HitboxPadding * Px
                   /\ worldY <= obs[i].y + HitboxPadding * Px}
    IN IF hit = {} THEN 0 ELSE CHOOSE m \in hit : \A n \in hit : m <= n

\* hitTestHikers that goes on after a match and returns the last hiker in reach
HitTestHikersLast(hk, worldX, worldY) ==
    LET Near(h) == LET r  == h.size + 20 * Px
                       dx == Abs(worldX - h.x)
                       dy == Abs(worldY - h.y)
                   IN dx < r /\ dy < r /\ dx * dx + dy * dy < r * r
        hit == {i \in 1..Len(hk) : Near(hk[i])}
    IN IF hit = {} THEN Null ELSE (CHOOSE m \in hit : \A n \in hit : m >= n) - 1

\* InputSystem.hitTestHikers(worldX, worldY): 0-based index, Null for none.
\* sqrt(dx^2 + dy^2) < size + 20; the squares are taken only inside the box
\* |dx|, |dy| < radius, outside of which the test is false anyway
HitTestHikers(hk, worldX, worldY) ==
    LET Near(h) == LET r  == h.size + 20 * Px
                       dx == Abs(worldX - h.x)
                       dy == Abs(worldY - h.y)
                   IN dx < r /\ dy < r /\ dx * dx + dy * dy < r * r
        hit == {i \in 1..Len(hk) : Near(hk[i])}
    IN IF hit = {} THEN Null ELSE (CHOOSE m \in hit : \A n \in hit : m <= n) - 1

-----------------------------------------------------------------------------
(***************************************************************************)
(* UISystem best score (js/ui.js)                                          *)
(***************************************************************************)
\* UISystem.loadBestScore(): stored ? parseFloat(stored) : 0
LoadBestScore(stored) == IF stored = Null THEN 0 ELSE stored

\* saveBestScore that writes the score whether or not it beats the stored one
SaveBestScoreAlways(stored, score) ==
    <<score > LoadBestScore(stored), score>>

\* UISystem.saveBestScore(score): <<isNewRecord, stored value afterwards>>
SaveBestScore(stored, score) ==
    IF score > LoadBestScore(stored) THEN <<TRUE, score>> ELSE <<FALSE, stored>>

-----------------------------------------------------------------------------
(***************************************************************************)
(* UISystem onboarding and HUD (js/ui.js), ColorPalette.setFlowShift       *)
(* (js/palette.js), AudioSystem.updateFlow (src/unnamed/part_000)          *)
(*                                                                         *)
(* The presentation never feeds back into the game: no handler reads it.   *)
(* UiSpec follows it; the other specifications leave it as it starts.      *)
(***************************************************************************)
\* ages of the last pushes are kept up to AgeCap ms: "more than 100 ms ago"
AgeCap == 101
\* Game.update: now - lastFlowUpdate > 100, ms
FlowUpdateMs == 100
\* auto-dismiss timers that are pending at the same time
MaxTimers == 2

\* elapsed ms added to an age
Since(age, elapsed) == Min(AgeCap, age + elapsed)

\* new UISystem, ColorPalette and AudioSystem, after Game.init() called
\* ui.showTitle(): nothing was pushed to the HUD, the palette or the audio yet
UiNew ==
    [onboardingDismissed |-> FALSE,  \* UISystem.onboardingDismissed
     onboardingHidden    |-> TRUE,   \* onboardingPrompt has class 'hidden'
     timers              |-> 0,      \* pending setTimeout(dismissOnboarding, 10000)
     flowAge             |-> AgeCap, \* now - state.lastFlowUpdate at the last frame, ms
     shiftAge            |-> AgeCap, \* ms from the last setFlowShift / updateFlow call to the last frame
     hudScore            |-> Null,   \* scoreDisplay.textContent
     hudFlow             |-> Null,   \* flowDisplay.textContent, tenths
     hudCleared          |-> Null,   \* obstaclesDisplay.textContent
     flowShift           |-> 0,      \* ColorPalette.flowShift, 1/1000 degree
     harmonicGain        |-> 0]      \* target gain of harmonicGains[0], 1/1000

\* showOnboarding that shows the prompt whether or not it was dismissed
UiShowOnboardingAgain(u) ==
    [u EXCEPT !.onboardingHidden = FALSE, !.timers = @ + 1]

\* UISystem.showOnboarding()
UiShowOnboarding(u) ==
    IF ~u.onboardingDismissed
    THEN [u EXCEPT !.onboardingHidden = FALSE, !.timers = @ + 1]
    ELSE u

\* UISystem.dismissOnboarding()
UiDismissOnboarding(u) ==
    [u EXCEPT !.onboardingDismissed = TRUE, !.onboardingHidden = TRUE]

\* UISystem.showHUD(): the onboarding part
UiShowHUD(u) == UiShowOnboarding(u)

\* UISystem.showTitle(): the onboarding part
UiShowTitle(u) == [u EXCEPT !.onboardingHidden = TRUE]

\* UISystem.showGameOver(score, bestScore): the onboarding part
UiShowGameOver(u) == [u EXCEPT !.onboardingHidden = TRUE]

\* UISystem.updateScore(score): Math.floor(score)
UiUpdateScore(u, score) == [u EXCEPT !.hudScore = score \div 100]

\* UISystem.updateFlow(multiplier): multiplier.toFixed(1), tenths
UiUpdateFlow(u, multiplier) ==
    [u EXCEPT !.hudFlow = IF multiplier = NaN THEN NaN ELSE (multiplier + 50) \div 100]

\* UISystem.updateObstaclesCleared(count)
UiUpdateObstaclesCleared(u, count) == [u EXCEPT !.hudCleared = count]

\* ColorPalette.setFlowShift: Math.min(5, (flowMultiplier - 1.0) * 5), 1/1000 degree
SetFlowShift(u, flowMultiplier) ==
    [u EXCEPT !.flowShift = IF flowMultiplier = NaN THEN NaN
                            ELSE Min(5000, (flowMultiplier - 1000) * 5)]

\* AudioSystem.updateFlow: the gain harmonicGains[0] is ramped to, 1/1000
AudioUpdateFlow(u, flowMultiplier) ==
    [u EXCEPT !.harmonicGain =
        IF flowMultiplier # NaN /\ flowMultiplier > 1500
        THEN Min(100, ((flowMultiplier - 1500) * 50) \div 1000)
        ELSE IF flowMultiplier # NaN /\ flowMultiplier < 1200 THEN 50
        ELSE 0]

\* Game.startGame(): lastFlowUpdate = 0, ui.showHUD(), ui.updateScore(0),
\* ui.updateFlow(1.0)
UiStartGame(u) ==
    UiUpdateFlow(UiUpdateScore(UiShowHUD([u EXCEPT !.flowAge = AgeCap]), 0), 1000)

\* Game.update, lines 165-184: the palette and the audio get the flow
\* multiplier, the HUD gets score, flow and cleared count when more than
\* 100 ms passed since it last did; st is Game.state after the tick
UiUpdate(u, elapsed, st) ==
    LET pushed == [AudioUpdateFlow(SetFlowShift(u, st.flowMultiplier),
                                   st.flowMultiplier)
                   EXCEPT !.shiftAge = 0]
        age == Since(u.flowAge, elapsed)
    IN IF age > FlowUpdateMs
       THEN [UiUpdateObstaclesCleared(
                UiUpdateFlow(UiUpdateScore(pushed, st.score), st.flowMultiplier),
                st.obstaclesCleared)
             EXCEPT !.flowAge = 0]
       ELSE [pushed EXCEPT !.flowAge = age]

\* a frame that does not run update: only the clock moves on
UiIdle(u, elapsed) ==
    [u EXCEPT !.flowAge = Since(@, elapsed), !.shiftAge = Since(@, elapsed)]

-----------------------------------------------------------------------------
(***************************************************************************)
(* Game (src/unnamed/part_001)                                             *)
(***************************************************************************)
\* FailureOf without the off-ground check
FailureOfNoGround(hk, ter, ob) ==
    IF CheckCollision(ob.obstacles, hk[1].x, hk[1].y, hk[1].size) # 0 THEN "collision"
    ELSE IF IsTooStretched(hk) THEN "stretched"
    ELSE "none"

\* Game.checkFailureConditions(): which check ends the run, "none" if none does
FailureOf(hk, ter, ob) ==
    IF CheckCollision(ob.obstacles, hk[1].x, hk[1].y, hk[1].size) # 0 THEN "collision"
    ELSE IF ~IsOnGround(ter, hk[1].x, hk[1].y) THEN "offground"
    ELSE IF IsTooStretched(hk) THEN "stretched"
    ELSE "none"

\* Game.loop: deltaTime = Math.min((now - lastTime) / 1000, 0.1), ms; without the cap
DeltaTimeUnclamped(elapsed) == elapsed

\* Game.loop: deltaTime = Math.min((now - lastTime) / 1000, 0.1), ms
DeltaTime(elapsed) == Min(elapsed, MaxDeltaMs)

\* Game.update: distance measured from the world origin instead of the run start
DistanceFromOrigin(herbieX, runStartX) == Max(0, herbieX)

\* Game.update: distance = Math.max(0, herbieX - runStartX)
DistanceOf(herbieX, runStartX) == Max(0, herbieX - runStartX)

\* Game.update: score = distance / 10 (cpx / 10 = 1/100 of a point)
ScoreOf(distance) == distance \div 10

\* Game.endGame: the best score handed to ui.showGameOver, computed from the
\* value loaded before saveBestScore ran
DisplayBest(stored, score) ==
    LET loadedBest  == LoadBestScore(stored)
        isNewRecord == SaveBestScore(stored, score)[1]
    IN IF isNewRecord THEN score ELSE loadedBest

Init ==
    /\ gameState = "title"
    /\ state = [distance |-> 0, score |-> 0, flowMultiplier |-> 1000,
                runStartX |-> 0, obstaclesCleared |-> 0]
    /\ hikers = << >>
    /\ terrain = TerrainNew
    /\ obstacles = ObstaclesNew
    /\ inputEnabled = FALSE
    /\ bestScore = Null
    /\ offloadsUsed = 0
    /\ shortUsed = 0
    /\ runs = 0
    /\ explore = "long"
    /\ ui = UiNew

\* Game.startGame(): the start and retry buttons
StartGame ==
    /\ terrain' = TerrainInit(CanvasWidthPx, CanvasHeightPx)
    /\ hikers' = HikersInit(StartX * Px, CanvasHeightPx * 70)
    /\ obstacles' = ObstaclesInit
    /\ state' = [distance |-> 0, score |-> 0, flowMultiplier |-> 1000,
                 runStartX |-> hikers'[1].x, obstaclesCleared |-> 0]
    /\ inputEnabled' = TRUE
    /\ gameState' = "playing"
    /\ offloadsUsed' = 0
    /\ shortUsed' = 0
    /\ explore' \in Explorations
    /\ UNCHANGED <<bestScore, runs>>

\* PauseGame without the check that the game is playing
PauseGameUnguarded ==
    /\ gameState' = "paused" /\ inputEnabled' = FALSE
    /\ UNCHANGED <<simvars, bestScore, offloadsUsed, shortUsed, runs, explore>>

\* PauseGame that leaves the input system enabled
PauseGameKeepInput ==
    /\ IF gameState # "playing"
       THEN UNCHANGED gameState
       ELSE gameState' = "paused"
    /\ UNCHANGED <<inputEnabled, simvars, bestScore, offloadsUsed, shortUsed, runs, explore>>

\* Game.pauseGame(): the pause button
PauseGame ==
    /\ IF gameState # "playing"
       THEN UNCHANGED <<gameState, inputEnabled>>
       ELSE gameState' = "paused" /\ inputEnabled' = FALSE
    /\ UNCHANGED <<simvars, bestScore, offloadsUsed, shortUsed, runs, explore>>

\* ResumeGame without the check that the game is paused
ResumeGameUnguarded ==
    /\ gameState' = "playing" /\ inputEnabled' = TRUE
    /\ UNCHANGED <<simvars, bestScore, offloadsUsed, shortUsed, runs, explore>>

\* Game.resumeGame(): the resume button
ResumeGame ==
    /\ IF gameState # "paused"
       THEN UNCHANGED <<gameState, inputEnabled>>
       ELSE gameState' = "playing" /\ inputEnabled' = TRUE
    /\ UNCHANGED <<simvars, bestScore, offloadsUsed, shortUsed, runs, explore>>

\* ShowTitle without the call of input.disable()
ShowTitleKeepInput ==
    /\ gameState' = "title"
    /\ UNCHANGED <<inputEnabled, simvars, bestScore, offloadsUsed, shortUsed, runs, explore>>

\* Game.showTitle(): the menu and quit buttons
ShowTitle ==
    /\ gameState' = "title"
    /\ inputEnabled' = FALSE
    /\ UNCHANGED <<simvars, bestScore, offloadsUsed, shortUsed, runs, explore>>

\* how far the current run is explored, px
ExploredPx ==
    IF explore = "long" THEN MaxDistancePx
    ELSE IF explore = "late" THEN MaxLatePx ELSE MaxMixedPx

\* whether an offload of follower hikerIndex is explored in the current run
OffloadExplored(hikerIndex) ==
    /\ explore = "mixed"
    /\ state.distance < ExploredPx * Px
    /\ offloadsUsed < MaxOffloads

\* Loop that skips update only in pause and on the title screen, so that the
\* frames after the end of a run go on updating
LoopAfterEnd(elapsed, rand, jitter) ==
    LET deltaTime == DeltaTime(elapsed)
    IN IF gameState \in {"playing", "gameover"}
       THEN /\ runs <= MaxRuns
            /\ state.distance < ExploredPx * Px
            /\ deltaTime < MaxDeltaMs => explore = "mixed" /\ shortUsed < MaxShort
            /\ LET hk       == HikersUpdate(hikers, deltaTime, terrain)
                   herbieX  == hk[1].x
                   distance == DistanceOf(herbieX, state.runStartX)
                   score    == ScoreOf(distance)
                   ter1     == TerrainUpdate(terrain, deltaTime, herbieX)
                   ou       == ObstaclesUpdate(obstacles, deltaTime, ter1, distance,
                                               rand, jitter)
                   failure  == FailureOf(hk, ou.ter, ou.ob)
                   saved    == SaveBestScore(bestScore, score)
               IN /\ hikers' = hk
                  /\ terrain' = ou.ter
                  /\ obstacles' = ou.ob
                  /\ state' = [state EXCEPT !.distance = distance,
                                            !.score = score,
                                            !.flowMultiplier = GetFlowMultiplier(hk),
                                            !.obstaclesCleared = ou.ob.obstaclesCleared]
                  /\ shortUsed' = IF deltaTime < MaxDeltaMs THEN shortUsed + 1
                                  ELSE shortUsed
                  /\ IF failure # "none"
                     THEN \* endGame()
                          /\ gameState' = "gameover"
                          /\ inputEnabled' = FALSE
                          /\ bestScore' = saved[2]
                          /\ runs' = runs + 1
                     ELSE UNCHANGED <<gameState, inputEnabled, bestScore, runs>>
                  /\ UNCHANGED <<offloadsUsed, explore>>
       ELSE \* only render() runs
            /\ UNCHANGED <<gameState, simvars, inputEnabled, bestScore,
                           offloadsUsed, shortUsed, runs, explore>>

\* Game.loop(): one animation frame, elapsed = now - lastTime in ms;
\* Game.update, checkFailureConditions and endGame run inside it
Loop(elapsed, rand, jitter) ==
    LET deltaTime == DeltaTime(elapsed)
    IN IF gameState = "playing"
       THEN /\ runs < MaxRuns
            /\ state.distance < ExploredPx * Px
            /\ deltaTime < MaxDeltaMs => explore = "mixed" /\ shortUsed < MaxShort
            /\ LET hk       == HikersUpdate(hikers, deltaTime, terrain)
                   herbieX  == hk[1].x
                   distance == DistanceOf(herbieX, state.runStartX)
                   score    == ScoreOf(distance)
                   ter1     == TerrainUpdate(terrain, deltaTime, herbieX)
                   ou       == ObstaclesUpdate(obstacles, deltaTime, ter1, distance,
                                               rand, jitter)
                   failure  == FailureOf(hk, ou.ter, ou.ob)
                   saved    == SaveBestScore(bestScore, score)
               IN /\ hikers' = hk
                  /\ terrain' = ou.ter
                  /\ obstacles' = ou.ob
                  /\ state' = [state EXCEPT !.distance = distance,
                                            !.score = score,
                                            !.flowMultiplier = GetFlowMultiplier(hk),
                                            !.obstaclesCleared = ou.ob.obstaclesCleared]
                  /\ shortUsed' = IF deltaTime < MaxDeltaMs THEN shortUsed + 1
                                  ELSE shortUsed
                  /\ IF failure # "none"
                     THEN \* endGame()
                          /\ gameState' = "gameover"
                          /\ inputEnabled' = FALSE
                          /\ bestScore' = saved[2]
                          /\ runs' = runs + 1
                     ELSE UNCHANGED <<gameState, inputEnabled, bestScore, runs>>
                  /\ UNCHANGED <<offloadsUsed, explore>>
       ELSE \* only render() runs
            /\ UNCHANGED <<gameState, simvars, inputEnabled, bestScore,
                           offloadsUsed, shortUsed, runs, explore>>

\* whether the frame after `elapsed` ms consumes Math.random(): only a frame
\* whose update triggers a spawn does (obstacles.js lines 22-29 and 55)
SpawnDue(elapsed) ==
    /\ gameState = "playing"
    /\ DistanceOf(HikersUpdate(hikers, DeltaTime(elapsed), terrain)[1].x,
                  state.runStartX) > obstacles.nextObstacleDistance

\* the draws a frame is explored with: all of them when it consumes them
RandsFor(elapsed) == IF SpawnDue(elapsed) THEN Rands ELSE {0}
JittersFor(elapsed) == IF SpawnDue(elapsed) THEN Jitters ELSE {0}

\* the world points a tap is tried at: the first hikers, the middle of every
\* obstacle, and the bottom-left corner of the canvas (nothing is there)
TapPoints ==
    {<<hikers[i].x, hikers[i].y>> : i \in 1..Min(MaxTapIndex + 1, Len(hikers))}
    \cup {<<obstacles.obstacles[i].x + obstacles.obstacles[i].width \div 2,
            obstacles.obstacles[i].y - obstacles.obstacles[i].height \div 2>> :
              i \in 1..Len(obstacles.obstacles)}
    \cup {<<terrain.cameraX, CanvasHeightPx * Px>>}

\* InputSystem.handlePointerDown(event) at world point (worldX, worldY);
\* the listener is attached only while the input system is enabled
PointerDown(worldX, worldY) ==
    /\ inputEnabled
    /\ LET hitObstacle == HitTest(obstacles.obstacles, worldX, worldY)
           hitHiker    == HitTestHikers(hikers, worldX, worldY)
       IN IF hitObstacle # 0
          THEN \* handleObstacleTap
               LET c == ClearObstacle(obstacles, terrain, hitObstacle)
               IN /\ obstacles' = c.ob
                  /\ terrain' = c.ter
                  /\ hikers' = IF c.ret THEN TriggerPulse(hikers) ELSE hikers
                  /\ UNCHANGED offloadsUsed
          ELSE IF hitHiker # Null
          THEN \* handleHikerTap
               /\ hitHiker > 0 => OffloadExplored(hitHiker)
               /\ hikers' = OffloadHiker(hikers, hitHiker)
               /\ offloadsUsed' = IF hitHiker > 0 THEN offloadsUsed + 1 ELSE offloadsUsed
               /\ UNCHANGED <<obstacles, terrain>>
          ELSE \* only ui.dismissOnboarding()
               UNCHANGED <<hikers, obstacles, terrain, offloadsUsed>>
    /\ UNCHANGED <<gameState, state, inputEnabled, bestScore, shortUsed, runs, explore>>

Next ==
    \/ StartGame /\ UNCHANGED ui
    \/ PauseGame /\ UNCHANGED ui
    \/ ResumeGame /\ UNCHANGED ui
    \/ ShowTitle /\ UNCHANGED ui
    \/ \E e \in ElapsedMs : \E r \in RandsFor(e), j \in JittersFor(e) : Loop(e, r, j) /\ UNCHANGED ui
    \/ \E p \in TapPoints : PointerDown(p[1], p[2]) /\ UNCHANGED ui

Spec == Init /\ [][Next]_vars

-----------------------------------------------------------------------------
(***************************************************************************)
(* The queries of HikerSystem and the type choice of ObstacleSystem on     *)
(* inputs of their whole domain: caravans of up to three hikers at the     *)
(* spacings FnGaps, and spawns at the distances FnDistances.               *)
(***************************************************************************)
\* obstacles spawned per behaviour
MaxFnSpawns == 1

\* distances (cpx) around the difficulty breakpoints 0.2 (1000 px) and 0.5
\* (2500 px), and where difficulty has reached 1.0 (5000 px) and is capped
FnDistances ==
    {0, 1000 * Px - 1, 1000 * Px, 2500 * Px - 1, 2500 * Px, 5000 * Px, 6000 * Px}

\* Math.random() draws (1/1000) on both sides of every cumulative weight
FnRands == {0, 199, 200, 249, 250, 399, 400, 449, 450, 499, 500, 699, 700, 749, 750, 999}

\* no hiker (before init), one hiker, and two or three hikers at the spacings FnGaps
FnCaravans ==
    {HikersAt(<< >>, CanvasHeightPx * 70), HikersAt(<<0>>, CanvasHeightPx * 70)}
    \cup {HikersAt(<<g, 0>>, CanvasHeightPx * 70) : g \in FnGaps}
    \cup {HikersAt(<<g + h, h, 0>>, CanvasHeightPx * 70) : g \in FnGaps, h \in FnGaps}

InitFn ==
    /\ gameState = "playing"
    /\ \E hk \in FnCaravans, d \in FnDistances :
          /\ Len(hk) = 0 \/ d = 0
          /\ hikers = hk
          /\ state = [distance |-> d, score |-> ScoreOf(d), flowMultiplier |-> 1000,
                      runStartX |-> 0, obstaclesCleared |-> 0]
    /\ terrain = TerrainInit(CanvasWidthPx, CanvasHeightPx)
    /\ obstacles = ObstaclesInit
    /\ inputEnabled = TRUE
    /\ bestScore = Null
    /\ offloadsUsed = 0
    /\ shortUsed = 0
    /\ runs = 0
    /\ explore = "long"
    /\ ui = UiStartGame(UiNew)

\* Game.update: this.state.flowMultiplier = this.state.hikers.getFlowMultiplier()
MeasureFlow ==
    /\ gameState = "playing"
    /\ state' = [state EXCEPT !.flowMultiplier = GetFlowMultiplier(hikers)]
    /\ UNCHANGED <<gameState, hikers, terrain, obstacles, inputEnabled, bestScore,
                   offloadsUsed, shortUsed, runs, explore, ui>>

\* Game.checkFailureConditions: if (isTooStretched()) endGame()
CheckStretched ==
    /\ gameState = "playing"
    /\ IsTooStretched(hikers)
    /\ gameState' = "gameover"
    /\ inputEnabled' = FALSE
    /\ bestScore' = SaveBestScore(bestScore, state.score)[2]
    /\ UNCHANGED <<simvars, offloadsUsed, shortUsed, runs, explore, ui>>

\* ObstacleSystem.spawnObstacle(terrain, distance) with Math.random() = rand
Spawn(rand) ==
    /\ Len(obstacles.obstacles) < MaxFnSpawns
    /\ LET sp == SpawnObstacle(obstacles.obstacles, terrain, state.distance, rand)
       IN /\ obstacles' = [obstacles EXCEPT !.obstacles = sp[1]]
          /\ terrain' = sp[2]
    /\ UNCHANGED <<gameState, state, hikers, inputEnabled, bestScore,
                   offloadsUsed, shortUsed, runs, explore, ui>>

NextFn ==
    \/ MeasureFlow
    \/ CheckStretched
    \/ \E r \in FnRands : Spawn(r)

FnSpec == InitFn /\ [][NextFn]_vars

-----------------------------------------------------------------------------
(***************************************************************************)
(* The game started with a best score already in localStorage, left there  *)
(* by runs of earlier page loads: nothing, a low score, and scores one     *)
(* below, equal to and one above the score this run ends with.             *)
(***************************************************************************)
\* localStorage 'herbie-best-score' when the page loads, 1/100
StoredBests == {Null, 100, 5499, 5500, 5501}

InitBest ==
    /\ gameState = "title"
    /\ state = [distance |-> 0, score |-> 0, flowMultiplier |-> 1000,
                runStartX |-> 0, obstaclesCleared |-> 0]
    /\ hikers = << >>
    /\ terrain = TerrainNew
    /\ obstacles = ObstaclesNew
    /\ inputEnabled = FALSE
    /\ bestScore \in StoredBests
    /\ offloadsUsed = 0
    /\ shortUsed = 0
    /\ runs = 0
    /\ explore = "long"
    /\ ui = UiNew

\* Game.startGame() followed to the end of the run with clamped frames
StartGameLong == StartGame /\ explore' = "long"

NextBest ==
    \/ StartGameLong /\ UNCHANGED ui
    \/ PauseGame /\ UNCHANGED ui
    \/ ResumeGame /\ UNCHANGED ui
    \/ ShowTitle /\ UNCHANGED ui
    \/ \E e \in ElapsedMs : \E r \in RandsFor(e), j \in JittersFor(e) : Loop(e, r, j) /\ UNCHANGED ui
    \/ \E p \in TapPoints : PointerDown(p[1], p[2]) /\ UNCHANGED ui

BestSpec == InitBest /\ [][NextBest]_vars

-----------------------------------------------------------------------------
(***************************************************************************)
(* The decay of offloadBoost under frames that keep coming: the decay      *)
(* lines of HikerSystem.update read and write only offloadBoost, so the    *)
(* positions, which grow without bound in an endless run, are left as they *)
(* are. requestAnimationFrame schedules the next frame at the end of every *)
(* loop, which is the fairness of the ticks.                               *)
(***************************************************************************)
\* offloads made before the caravan is left to decay
MaxDecayOffloads == 2

InitDecay ==
    /\ gameState = "playing"
    /\ hikers = HikersInit(StartX * Px, CanvasHeightPx * 70)
    /\ state = [distance |-> 0, score |-> 0, flowMultiplier |-> 1000,
                runStartX |-> StartX * Px, obstaclesCleared |-> 0]
    /\ terrain = TerrainInit(CanvasWidthPx, CanvasHeightPx)
    /\ obstacles = ObstaclesInit
    /\ inputEnabled = TRUE
    /\ bestScore = Null
    /\ offloadsUsed = 0
    /\ shortUsed = 0
    /\ runs = 0
    /\ explore = "mixed"
    /\ ui = UiStartGame(UiNew)

\* handleHikerTap on follower hikerIndex
OffloadTap(hikerIndex) ==
    /\ inputEnabled
    /\ offloadsUsed < MaxDecayOffloads
    /\ hikers' = OffloadHiker(hikers, hikerIndex)
    /\ offloadsUsed' = offloadsUsed + 1
    /\ UNCHANGED <<gameState, state, terrain, obstacles, inputEnabled, bestScore,
                   shortUsed, runs, explore, ui>>

\* the decay of every hiker's offloadBoost in one update (hikers.js lines 102-109)
DecayTick(elapsed) ==
    /\ gameState = "playing"
    /\ hikers' = [i \in 1..Len(hikers) |->
                    [hikers[i] EXCEPT !.offloadBoost =
                        DecayBoost(hikers[i].offloadBoost, DeltaTime(elapsed))]]
    /\ UNCHANGED <<gameState, state, terrain, obstacles, inputEnabled, bestScore,
                   offloadsUsed, shortUsed, runs, explore, ui>>

NextDecay ==
    \/ \E k \in 1..MaxTapIndex : OffloadTap(k)
    \/ \E e \in ElapsedMs : DecayTick(e)

DecaySpec ==
    InitDecay /\ [][NextDecay]_vars /\ WF_vars(\E e \in ElapsedMs : DecayTick(e))

-----------------------------------------------------------------------------
(***************************************************************************)
(* ObstacleSystem.update and clearObstacle under frames that keep coming:  *)
(* the clearing animation and the filter read the obstacle list, deltaTime *)
(* and the camera only, so the caravan and the camera are left where they  *)
(* are and the distance stays below the spawn threshold. The lists are     *)
(* those spawnObstacle makes on the terrain of a new run, one obstacle or  *)
(* two of different types.                                                 *)
(***************************************************************************)
\* Math.random() of the spawns that make the lists: a wall, a barrier, a gap
ClearingRands == {100, 500, 800}

\* the obstacle lists and terrains the clearing starts from
ClearingInputs ==
    LET ter0 == TerrainInit(CanvasWidthPx, CanvasHeightPx)
        One(r) == SpawnObstacle(<< >>, ter0, 0, r)
        Two(r, q) == SpawnObstacle(One(r)[1], One(r)[2], 0, q)
    IN {One(r) : r \in ClearingRands}
       \cup UNION {{Two(r, q) : q \in ClearingRands \ {r}} : r \in ClearingRands}

InitClearing ==
    /\ gameState = "playing"
    /\ hikers = HikersInit(StartX * Px, CanvasHeightPx * 70)
    /\ state = [distance |-> 0, score |-> 0, flowMultiplier |-> 1000,
                runStartX |-> StartX * Px, obstaclesCleared |-> 0]
    /\ \E sp \in ClearingInputs :
          /\ obstacles = [ObstaclesInit EXCEPT !.obstacles = sp[1]]
          /\ terrain = sp[2]
    /\ inputEnabled = TRUE
    /\ bestScore = Null
    /\ offloadsUsed = 0
    /\ shortUsed = 0
    /\ runs = 0
    /\ explore = "mixed"
    /\ ui = UiStartGame(UiNew)

\* handleObstacleTap on obstacles[i]
ObstacleTap(i) ==
    /\ inputEnabled
    /\ LET c == ClearObstacle(obstacles, terrain, i)
       IN /\ obstacles' = c.ob
          /\ terrain' = c.ter
          /\ hikers' = IF c.ret THEN TriggerPulse(hikers) ELSE hikers
    /\ UNCHANGED <<gameState, state, inputEnabled, bestScore, offloadsUsed,
                   shortUsed, runs, explore, ui>>

\* ObstacleSystem.update(deltaTime, terrain, distance) of one frame
ObstaclesTick(elapsed) ==
    /\ gameState = "playing"
    /\ LET ou == ObstaclesUpdate(obstacles, DeltaTime(elapsed), terrain,
                                 state.distance, 0, 0)
       IN /\ obstacles' = ou.ob
          /\ terrain' = ou.ter
    /\ UNCHANGED <<gameState, state, hikers, inputEnabled, bestScore, offloadsUsed,
                   shortUsed, runs, explore, ui>>

\* the world points a pointerdown is tried at: the middle of every obstacle,
\* the four corners of its box grown by the hit padding, and the points one
\* unit around each corner
HitProbes ==
    UNION {LET o == obstacles.obstacles[i]
           IN {<<o.x + o.width \div 2, o.y - o.height \div 2>>}
              \cup {<<cx + dx, cy + dy>> :
                       cx \in {o.x - HitboxPadding * Px, o.x + o.width + HitboxPadding * Px},
                       cy \in {o.y - o.height - HitboxPadding * Px, o.y + HitboxPadding * Px},
                       dx \in {-1, 0, 1}, dy \in {-1, 0, 1}} :
             i \in 1..Len(obstacles.obstacles)}

NextClearing ==
    \/ \E i \in 1..Len(obstacles.obstacles) : ObstacleTap(i)
    \/ \E e \in ElapsedMs : ObstaclesTick(e)
    \/ \E p \in HitProbes : PointerDown(p[1], p[2]) /\ UNCHANGED ui

ClearingSpec ==
    InitClearing /\ [][NextClearing]_vars
    /\ WF_vars(\E e \in ElapsedMs : ObstaclesTick(e))

-----------------------------------------------------------------------------
(***************************************************************************)
(* Runs on canvases of other widths: startGame reads the width of the      *)
(* canvas from getBoundingClientRect, and the camera, the generation of    *)
(* the terrain and the spawn position depend on it.                        *)
(***************************************************************************)
\* canvasRect.width at startGame, px: a narrow canvas, whose terrain is only
\* pruned; wider ones, whose terrain is generated from the first frames on
CanvasWidths == {100, 800, 1400, 2050}

\* the state startGame leaves on a canvas of one of the widths
InitCanvas ==
    /\ gameState = "playing"
    /\ \E w \in CanvasWidths : terrain = TerrainInit(w, CanvasHeightPx)
    /\ hikers = HikersInit(StartX * Px, CanvasHeightPx * 70)
    /\ obstacles = ObstaclesInit
    /\ state = [distance |-> 0, score |-> 0, flowMultiplier |-> 1000,
                runStartX |-> StartX * Px, obstaclesCleared |-> 0]
    /\ inputEnabled = TRUE
    /\ bestScore = Null
    /\ offloadsUsed = 0
    /\ shortUsed = 0
    /\ runs = 0
    /\ explore = "long"
    /\ ui = UiStartGame(UiNew)

NextCanvas ==
    \/ \E e \in ElapsedMs : \E r \in RandsFor(e), j \in JittersFor(e) : Loop(e, r, j) /\ UNCHANGED ui
    \/ \E p \in TapPoints : PointerDown(p[1], p[2]) /\ UNCHANGED ui

CanvasSpec == InitCanvas /\ [][NextCanvas]_vars

-----------------------------------------------------------------------------
(***************************************************************************)
(* A run taken up late.  Beyond a distance of 2500 the spawn rate is under *)
(* the width of a segment, so that two spawns can fall on one segment; a   *)
(* run gets there when every gap is tapped in time (the other obstacles    *)
(* are walked through).  The run is taken up at LateStartPx, after frames  *)
(* of 0.1 s, with every earlier obstacle tapped and gone.                  *)
(***************************************************************************)
\* how far the camera stays behind its follow target once the easing
\* (factor 0.4 per frame of 0.1 s, a leader step of 10 px) has settled, cpx
SteadyLag == 1502

\* the hikers at distance d (cpx) of a run without offload: the formation
\* of init moved by d, everyone at the leader's speed
SteadyHikers(d) ==
    [i \in 1..Len(BaseSpeeds) |->
        [HikersInit(StartX * Px, CanvasHeightPx * 70)[i] EXCEPT
            !.x = @ + d, !.currentSpeed = BaseSpeeds[1]]]

\* the terrain at distance d (cpx) of such a run in frames of 0.1 s, no gap
\* open: the camera SteadyLag behind its target, the strip from the segment
\* that ends after camera - 100 up to camera + width + 200
SteadyTerrain(d) ==
    LET w     == CanvasWidthPx * Px
        cam   == StartX * Px + d - (w * 3) \div 10 - SteadyLag
        first == ((cam - 100 * Px) \div (SegmentWidth * Px)) * (SegmentWidth * Px)
        strip == GenerateUntil([cameraX |-> cam, segments |-> << >>,
                                nextSegmentX |-> first, canvasWidth |-> w,
                                baseY |-> CanvasHeightPx * 70],
                               cam + w + 200 * Px)
    IN IF strip.nextSegmentX >= InitialSegments * SegmentWidth * Px THEN strip
       ELSE GenerateUntil(strip, InitialSegments * SegmentWidth * Px)

\* nextObstacleDistance at LateStartPx: the last spawn was at distance 3300
\* with Math.random() * 80 = 0, 3300 + (180 - 60 * 0.66) = 3440.4
LateThreshold == 344040

\* obstacles spawned and tapped before LateStartPx
LateCleared == 18

\* Math.random() of the late spawns: a gap, a barrier
LateRands == {100, 500}

InitLate ==
    /\ gameState = "playing"
    /\ hikers = SteadyHikers(LateStartPx * Px)
    /\ terrain = SteadyTerrain(LateStartPx * Px)
    /\ obstacles = [obstacles |-> << >>, nextObstacleDistance |-> LateThreshold,
                    obstaclesCleared |-> LateCleared]
    /\ state = [distance |-> LateStartPx * Px, score |-> ScoreOf(LateStartPx * Px),
                flowMultiplier |-> GetFlowMultiplier(hikers),
                runStartX |-> StartX * Px, obstaclesCleared |-> LateCleared]
    /\ inputEnabled = TRUE
    /\ bestScore = Null
    /\ offloadsUsed = 0
    /\ shortUsed = 0
    /\ runs = 0
    /\ explore = "late"
    /\ ui = UiDismissOnboarding(UiStartGame(UiNew))

NextLate ==
    \/ \E e \in ElapsedMs :
          \E r \in (IF SpawnDue(e) THEN LateRands ELSE {0}), j \in JittersFor(e) :
             Loop(e, r, j) /\ UNCHANGED ui
    \/ \E p \in TapPoints : PointerDown(p[1], p[2]) /\ UNCHANGED ui

LateSpec == InitLate /\ [][NextLate]_vars

-----------------------------------------------------------------------------
(***************************************************************************)
(* The presentation.  The handlers of the game with the calls they make on *)
(* the UI, the palette and the audio, and the auto-dismiss timer of the    *)
(* onboarding prompt.  setTimeout(..., 10000) is a pending timer that may  *)
(* fire at any later step; the wall clock is the sum of the frames'        *)
(* elapsed times.                                                          *)
(***************************************************************************)
UiElapsedMs == {40, 100, 250}
UiRands == {800}

\* Game.startGame() with ui.showHUD(), ui.updateScore(0), ui.updateFlow(1.0)
StartGameUi ==
    /\ StartGame
    /\ ui.onboardingDismissed \/ ui.timers < MaxTimers
    /\ ui' = UiStartGame(ui)

\* Game.pauseGame() / resumeGame(): ui.showPause() / hidePause() only
PauseGameUi == PauseGame /\ UNCHANGED ui
ResumeGameUi == ResumeGame /\ UNCHANGED ui

\* Game.showTitle() with ui.showTitle()
ShowTitleUi == ShowTitle /\ ui' = UiShowTitle(ui)

\* Game.loop() with the pushes of Game.update and ui.showGameOver of endGame
LoopUi(elapsed, rand, jitter) ==
    /\ Loop(elapsed, rand, jitter)
    /\ ui' = IF gameState = "playing"
             THEN LET u == UiUpdate(ui, elapsed, state')
                  IN IF gameState' = "gameover" THEN UiShowGameOver(u) ELSE u
             ELSE UiIdle(ui, elapsed)

\* InputSystem.handlePointerDown with ui.dismissOnboarding(): after a
\* successful obstacle tap, after a hiker tap, and after a tap on nothing
PointerDownUi(worldX, worldY) ==
    /\ PointerDown(worldX, worldY)
    /\ LET hitObstacle == HitTest(obstacles.obstacles, worldX, worldY)
       IN ui' = IF hitObstacle # 0 /\ ~ClearObstacle(obstacles, terrain, hitObstacle).ret
                THEN ui
                ELSE UiDismissOnboarding(ui)

\* the callback of setTimeout in showOnboarding: this.dismissOnboarding()
OnboardingTimeout ==
    /\ ui.timers > 0
    /\ ui' = [UiDismissOnboarding(ui) EXCEPT !.timers = @ - 1]
    /\ UNCHANGED coreVars

\* the world points a tap is tried at: the middle of every obstacle and the
\* bottom-left corner of the canvas (nothing is there)
UiTapPoints ==
    {<<obstacles.obstacles[i].x + obstacles.obstacles[i].width \div 2,
       obstacles.obstacles[i].y - obstacles.obstacles[i].height \div 2>> :
         i \in 1..Len(obstacles.obstacles)}
    \cup {<<terrain.cameraX, CanvasHeightPx * Px>>}

NextUi ==
    \/ StartGameUi
    \/ PauseGameUi
    \/ ResumeGameUi
    \/ ShowTitleUi
    \/ \E e \in UiElapsedMs :
          \E r \in (IF SpawnDue(e) THEN UiRands ELSE {0}) : LoopUi(e, r, 0)
    \/ \E p \in UiTapPoints : PointerDownUi(p[1], p[2])
    \/ OnboardingTimeout

UiSpec == Init /\ [][NextUi]_vars

-----------------------------------------------------------------------------
(***************************************************************************)
(* Properties                                                              *)
(***************************************************************************)
\* the spacing between hiker i (1-based, i >= 2) and the hiker ahead of it
Gap(i) == hikers[i - 1].x - hikers[i].x

\* C1: in every reachable state every follower is strictly behind the hiker
\* ahead of it: x(i) < x(i-1) for all i > 0, whatever ticks and offload taps
\* came before.
C1_NoOvertaking == \A i \in 2..Len(hikers) : hikers[i].x < hikers[i - 1].x

\* C1 witness: a run with ticks and a follower offload in which a follower has
\* closed in on the hiker ahead of it and is held back in the waiting band.
C1_Witness ==
    /\ offloadsUsed > 0 /\ state.distance > 0
    /\ \E i \in 2..Len(hikers) : hikers[i].isWaiting /\ Gap(i) < Spacing * Px

\* an obstacle that can be hit: a wall, platform or barrier not tapped yet
Solid(o) == o.type # "gap" /\ ~o.cleared /\ ~o.clearing

\* the leader's padded box overlaps the x-extent of o, or is already past it
LeaderReached(o) ==
    hikers[1].x + hikers[1].size \div 2 - CollisionPadding * Px > o.x

\* C2: while the game is playing the leader has not reached any uncleared,
\* non-clearing wall, platform or barrier: the tick on which its padded box
\* comes to overlap the obstacle's x-extent ends the run, so it never stands
\* in or beyond such an obstacle in a playing state.
C2_SolidObstacleEndsRun ==
    gameState = "playing" =>
        \A i \in 1..Len(obstacles.obstacles) :
            Solid(obstacles.obstacles[i]) => ~LeaderReached(obstacles.obstacles[i])

\* none of the three failure conditions of checkFailureConditions holds
NoFailure ==
    /\ CheckCollision(obstacles.obstacles, hikers[1].x, hikers[1].y, hikers[1].size) = 0
    /\ IsOnGround(terrain, hikers[1].x, hikers[1].y)
    /\ ~IsTooStretched(hikers)

\* C3: every step that leaves the game playing leaves the leader on a
\* non-gapped segment, no adjacent pair more than 220 px apart and no
\* collision reported; and a step taken while playing after which one of the
\* three conditions holds ends in gameover.
C3_FailureEndsTick ==
    [][/\ gameState' = "playing" => NoFailure'
       /\ gameState = "playing" /\ ~NoFailure' => gameState' = "gameover"]_vars

\* C3 witness: a run ended by the tick on which the leader left the ground.
C3_Witness ==
    /\ gameState = "gameover" /\ state.distance > 0
    /\ ~IsOnGround(terrain, hikers[1].x, hikers[1].y)

\* the transitions the state diagram lists
ListedTransitions ==
    {<<"title", "playing">>, <<"playing", "paused">>, <<"paused", "playing">>,
     <<"playing", "gameover">>, <<"gameover", "title">>, <<"gameover", "playing">>}

\* C4 as stated: gameState changes only along the listed transitions, and a
\* playing game is never restarted (the caravan is never put back to its start).
C4_OnlyListedTransitions ==
    [][/\ gameState' # gameState => <<gameState, gameState'>> \in ListedTransitions
       /\ gameState = "playing" /\ gameState' = "playing"
             => hikers'[1].x >= hikers[1].x]_vars

\* C4 amended: gameState changes only along the listed transitions or to
\* title from playing or paused (menu and quit call showTitle in any state);
\* in particular it becomes paused only from playing and gameover only from
\* playing. start and retry restart the run from any state.
C4_Transitions ==
    [][gameState' # gameState =>
          <<gameState, gameState'>> \in
              ListedTransitions \cup {<<"paused", "title">>, <<"playing", "title">>}]_vars

\* C4 witness: the title screen entered from a run in progress: the run has
\* covered distance and has not ended in gameover.
C4_Witness == gameState = "title" /\ runs = 0 /\ state.distance > 0

\* everything but the model's exploration bookkeeping
gamevars == <<gameState, inputEnabled, simvars, bestScore>>

\* C5: a step of pauseGame taken when the game is not playing, and a step of
\* resumeGame taken when it is not paused, leaves gameState, the input
\* enablement and every simulation variable as they were.
C5_InvalidPauseResumeNoOp ==
    [][/\ PauseGame /\ gameState # "playing" => UNCHANGED gamevars
       /\ ResumeGame /\ gameState # "paused" => UNCHANGED gamevars]_vars

\* C5 witness: a run that has ended with obstacles on the track: the game is
\* neither playing nor paused, so both calls are invalid here.
C5_Witness ==
    /\ gameState = "gameover" /\ state.distance > 0
    /\ Len(obstacles.obstacles) > 0

\* C6: from a paused game every step other than a restart by startGame (a
\* frame, a pointer event, resume, quit) leaves the simulation state (hikers,
\* terrain, obstacles, distance, score, counters) unchanged, and so does the
\* pause step itself; no pointer event is delivered while paused.
C6_PausedFrozen ==
    [][/\ gameState = "paused" /\ ~StartGame => UNCHANGED simvars
       /\ gameState = "paused" => ~inputEnabled
       /\ gameState = "playing" /\ gameState' = "paused" => UNCHANGED simvars]_vars

\* C6 witness: the game paused in the middle of a run while a tapped
\* obstacle is part-way through its clearing.
C6_Witness ==
    /\ gameState = "paused" /\ state.distance > 0
    /\ \E i \in 1..Len(obstacles.obstacles) :
          /\ obstacles.obstacles[i].clearing
          /\ obstacles.obstacles[i].clearProgress > 0

\* C7: clearObstacle on an obstacle that is already clearing or cleared
\* returns false and changes nothing; outside a restart the cleared counter
\* never decreases and grows by at most one per step, and it grows only in a
\* step that turns exactly one untapped obstacle into a clearing one.
C7_ClearOnce ==
    [][/\ \A i \in 1..Len(obstacles.obstacles) :
             obstacles.obstacles[i].clearing \/ obstacles.obstacles[i].cleared =>
                 ClearObstacle(obstacles, terrain, i) =
                     [ret |-> FALSE, ob |-> obstacles, ter |-> terrain]
       /\ ~StartGame =>
             obstacles'.obstaclesCleared \in
                 {obstacles.obstaclesCleared, obstacles.obstaclesCleared + 1}
       /\ ~StartGame /\ obstacles'.obstaclesCleared = obstacles.obstaclesCleared + 1 =>
             \E i \in 1..Len(obstacles.obstacles) :
                 /\ ~obstacles.obstacles[i].clearing
                 /\ ~obstacles.obstacles[i].cleared
                 /\ obstacles'.obstacles =
                        [obstacles.obstacles EXCEPT ![i].clearing = TRUE]]_vars

\* C7 witness: two obstacles have been tapped in this run and one of them is
\* still on the track, clearing.
C7_Witness ==
    /\ obstacles.obstaclesCleared >= 2
    /\ \E i \in 1..Len(obstacles.obstacles) : obstacles.obstacles[i].clearing

\* C8: for every obstacle on the track, after a successful clearObstacle (and
\* for every obstacle already clearing) a wall, platform or barrier is not
\* reported by checkCollision even for a leader placed in the middle of its
\* box, and a gap's segment answers getYAtX with the ground height and
\* isOnGround with true over its whole width.
C8_TappedObstacleHarmless ==
    \A i \in 1..Len(obstacles.obstacles) :
        LET o     == obstacles.obstacles[i]
            c     == ClearObstacle(obstacles, terrain, i)
            after == c.ob.obstacles[i]
            cx    == o.x + o.width \div 2
            cy    == o.y - o.height \div 2
        IN /\ ~o.clearing /\ ~o.cleared => c.ret
           /\ o.type # "gap" => CheckCollision(<<after>>, cx, cy, HikerSize * Px) = 0
           /\ o.type = "gap" /\ c.ret =>
                 \A x \in {o.x, o.x + o.width - 1} :
                     /\ GetYAtX(c.ter, x) = terrain.baseY
                     /\ IsOnGround(c.ter, x, terrain.baseY)

\* C8 witness: the game is still playing with the leader walking over the
\* segment of a gap that was tapped and is clearing.
C8_Witness ==
    /\ gameState = "playing"
    /\ \E i \in 1..Len(obstacles.obstacles) :
          LET o == obstacles.obstacles[i]
          IN /\ o.type = "gap" /\ o.clearing
             /\ hikers[1].x >= o.x /\ hikers[1].x < o.x + o.width

\* C9: a tap on the leader resolves to index 0, and offloadHiker(0) leaves
\* every hiker's offloadBoost, speed, position and pulseTime as it was.
C9_LeaderOffloadNoOp ==
    Len(hikers) > 0 =>
        LET hit == HitTestHikers(hikers, hikers[1].x, hikers[1].y)
        IN hit = 0 /\ OffloadHiker(hikers, hit) = hikers

\* C9 witness: the leader can be tapped while its boost is part-way decayed
\* and a follower is slowed, so an offload that acted would show.
C9_Witness ==
    /\ inputEnabled /\ Len(hikers) > 0
    /\ hikers[1].offloadBoost > 0 /\ hikers[1].offloadBoost < OffloadBoost
    /\ hikers[1].pulseTime < PulseMs
    /\ \E i \in 2..Len(hikers) : hikers[i].offloadBoost < 0

\* C10: the leader's offloadBoost is at most 0.4 and its speed at most 1.4 in
\* every reachable state, and offloadHiker(k) for a follower k sets that
\* follower's boost to -0.2 and the leader's to 0.4.
C10_BoostCapped ==
    Len(hikers) > 0 =>
        /\ hikers[1].offloadBoost <= OffloadBoost
        /\ hikers[1].baseSpeed + hikers[1].offloadBoost <= 1000 + OffloadBoost
        /\ hikers[1].currentSpeed <= 1000 + OffloadBoost
        /\ \A k \in 1..Len(hikers) - 1 :
              LET after == OffloadHiker(hikers, k)
              IN /\ after[k + 1].offloadBoost = OffloadSlow
                 /\ after[1].offloadBoost = OffloadBoost

\* C10 witness: a second offload made after a tick, before the first boost
\* has decayed: the leader's boost is back at 0.4 while a follower offloaded
\* earlier has a boost that has already decayed part of the way.
C10_Witness ==
    /\ offloadsUsed = 2 /\ hikers[1].offloadBoost = OffloadBoost
    /\ \E i \in 2..Len(hikers) :
          hikers[i].offloadBoost < 0 /\ hikers[i].offloadBoost > OffloadSlow

\* clamp(3.0 - |avgSpacing - 60| / 60, 1.0, 3.0) for a caravan of five, with
\* the mean of the four spacings taken as (x(0) - x(4)) / 4
FlowFormula(hk) ==
    LET avgSpacing == (hk[1].x - hk[5].x) \div 4
        raw        == 3000 - (Abs(avgSpacing - Spacing * Px) * 1000) \div (Spacing * Px)
    IN IF raw < 1000 THEN 1000 ELSE IF raw > 3000 THEN 3000 ELSE raw

Spacings(hk) == {hk[i - 1].x - hk[i].x : i \in 2..Len(hk)}

\* C12: isTooStretched() is true exactly when some adjacent spacing is
\* strictly greater than 220; the run is ended for stretching only then; two
\* agents at spacing 300 give true, at 219 and at exactly 220 false.
C12_StretchedIffOver220 ==
    /\ IsTooStretched(hikers) <=> Spacings(hikers) \ (0..(MaxStretch * Px)) # {}
    /\ gameState = "gameover" => \E g \in Spacings(hikers) : g > 220 * Px
    /\ IsTooStretched(HikersAt(<<300 * Px, 0>>, terrain.baseY))
    /\ ~IsTooStretched(HikersAt(<<219 * Px, 0>>, terrain.baseY))
    /\ ~IsTooStretched(HikersAt(<<220 * Px, 0>>, terrain.baseY))

\* C12 witness: a caravan of three ended for stretching whose front pair is
\* exactly 220 apart and whose rear pair is just over 220.
C12_Witness ==
    /\ gameState = "gameover" /\ Len(hikers) = 3
    /\ hikers[1].x - hikers[2].x = 220 * Px
    /\ hikers[2].x - hikers[3].x = 220 * Px + 1

\* the type a table of cumulative weights gives for the draw r
Pick(table, r) ==
    table[CHOOSE k \in 1..Len(table) :
              /\ r < table[k][1]
              /\ \A j \in 1..(k - 1) : r >= table[j][1]][2]

\* the type tables: early as the code draws it, mid and late
EarlyTable == <<<<400, "wall">>, <<700, "barrier">>, <<1000, "gap">>>>
MidTable ==
    <<<<250, "gap">>, <<500, "wall">>, <<750, "barrier">>, <<1000, "platform">>>>
LateTable ==
    <<<<200, "gap">>, <<450, "wall">>, <<700, "barrier">>, <<1000, "platform">>>>

\* C13 as stated: every obstacle spawned while difficulty < 0.2 is a wall or
\* a barrier, whatever the draw.
C13_EarlyOnlyWallOrBarrier ==
    Difficulty(state.distance) < 200 =>
        \A i \in 1..Len(obstacles.obstacles) :
            obstacles.obstacles[i].type \in {"wall", "barrier"}

\* C13 amended: while difficulty < 0.2 the type is wall for a draw below 0.4,
\* barrier below 0.7 and gap from 0.7 on; every obstacle spawned in that band
\* is a wall, a barrier or a gap, never a platform.
C13_EarlyTypes ==
    Difficulty(state.distance) < 200 =>
        /\ \A r \in FnRands :
              ObstacleType(Difficulty(state.distance), r) = Pick(EarlyTable, r)
        /\ \A i \in 1..Len(obstacles.obstacles) :
              obstacles.obstacles[i].type \in {"wall", "barrier", "gap"}

\* C13 witness: a run at difficulty below 0.2 with a gap on the track, its
\* segment marked as gapped.
C13_Witness ==
    /\ state.distance > 0 /\ Difficulty(state.distance) < 200
    /\ \E i \in 1..Len(obstacles.obstacles) :
          /\ obstacles.obstacles[i].type = "gap"
          /\ GetYAtX(terrain, obstacles.obstacles[i].x) = Null

\* C19: with fewer than two hikers (no adjacent pair) getFlowMultiplier()
\* returns exactly 1.0, and so does the value update stores from it.
C19_FewHikersGiveOne ==
    Len(hikers) < 2 =>
        /\ GetFlowMultiplier(hikers) = 1000
        /\ state.flowMultiplier = 1000

\* C20: for difficulty in [0.2, 0.5) the type is gap below 0.25, wall below
\* 0.5, barrier below 0.75, else platform; for difficulty >= 0.5 it is gap
\* below 0.2, wall below 0.45, barrier below 0.7, else platform; below 0.2 no
\* draw gives a platform; and every spawned obstacle has the type its band
\* gives for some draw.
C20_TypeTable ==
    LET difficulty == Difficulty(state.distance)
        table      == IF difficulty < 200 THEN EarlyTable
                      ELSE IF difficulty < 500 THEN MidTable ELSE LateTable
    IN /\ difficulty >= 200 =>
             \A r \in FnRands : ObstacleType(difficulty, r) = Pick(table, r)
       /\ difficulty < 200 =>
             \A r \in FnRands : ObstacleType(difficulty, r) # "platform"
       /\ \A i \in 1..Len(obstacles.obstacles) :
             /\ \E r \in FnRands : obstacles.obstacles[i].type = Pick(table, r)
             /\ difficulty < 200 => obstacles.obstacles[i].type # "platform"

\* C20 witness: a platform spawned where difficulty has reached 1.0.
C20_Witness ==
    /\ Difficulty(state.distance) = 1000
    /\ \E i \in 1..Len(obstacles.obstacles) : obstacles.obstacles[i].type = "platform"


\* a step of the frame loop that ran Game.update: only it moves the distance
\* up (startGame puts it back to 0)
Tick == state'.distance > state.distance

\* C14: from init (5 agents, base speeds 1.0 .. 1.6, spacing 60, leader at
\* x = 200) and with no offload, after ticks of deltaTime <= 0.1 totalling T
\* the leader is at 200 + 100 T (each tick adds 100 deltaTime, and the
\* distance is the sum), every follower walks at speed 1.0 and is never
\* waiting, every spacing is exactly 60, and the caravan is never
\* overstretched
C14_NoOffloadKeepsFormation ==
    /\ [](offloadsUsed = 0 /\ Len(hikers) = Len(BaseSpeeds) =>
            /\ \A i \in 1..Len(hikers) : hikers[i].baseSpeed = BaseSpeeds[i]
            /\ hikers[1].x = StartX * Px + state.distance
            /\ \A i \in 2..Len(hikers) :
                  /\ Gap(i) = Spacing * Px
                  /\ ~hikers[i].isWaiting
                  /\ state.distance > 0 => hikers[i].currentSpeed = 1000
            /\ ~IsTooStretched(hikers))
    /\ [][offloadsUsed = 0 /\ Tick =>
            \E e \in ElapsedMs :
               /\ DeltaTime(e) <= 100
               /\ \A i \in 1..Len(hikers) :
                     hikers'[i].x = hikers[i].x + (1000 * DeltaTime(e)) \div 100]_vars

\* a run without offload that has taken a short and several clamped frames
C14_Witness ==
    /\ gameState = "playing"
    /\ offloadsUsed = 0
    /\ shortUsed = 1
    /\ state.distance >= 100 * Px
    /\ \A i \in 2..Len(hikers) : Gap(i) = Spacing * Px


\* C15: throughout a run distance = max(0, leaderX - runStartX) >= 0 and
\* score = distance / 10, and within a run (every step but startGame's reset)
\* neither of them decreases and the leader never moves backwards, whatever
\* offloads are made
C15_DistanceMonotone ==
    /\ [](Len(hikers) > 0 =>
            /\ state.distance = Max(0, hikers[1].x - state.runStartX)
            /\ state.distance >= 0
            /\ state.score * 10 <= state.distance
            /\ state.distance < (state.score + 1) * 10)
    /\ [][StartGame \/ Len(hikers) = 0
          \/ (/\ state'.distance >= state.distance
              /\ state'.score >= state.score
              /\ hikers'[1].x >= hikers[1].x
              /\ Tick => hikers'[1].x > hikers[1].x)]_vars

\* a run that has advanced through short and clamped frames with offloads made
C15_Witness ==
    /\ gameState = "playing"
    /\ offloadsUsed = MaxOffloads
    /\ shortUsed = 1
    /\ state.distance >= 50 * Px
    /\ state.score > 0


\* a step in which Game.endGame ran
RunEnd == gameState = "playing" /\ gameState' = "gameover"

\* C16: the persisted best score never decreases; a run end leaves it at the
\* maximum of the best stored before and the final score, writing it only
\* when the final score is strictly greater; no other step touches it; and
\* the best score handed to the game-over screen is max(previous best, final
\* score), never below the final score
C16_BestScoreIsMaximum ==
    [][/\ LoadBestScore(bestScore') >= LoadBestScore(bestScore)
       /\ RunEnd =>
            /\ LoadBestScore(bestScore') =
                  Max(LoadBestScore(bestScore), state'.score)
            /\ bestScore' # bestScore <=> state'.score > LoadBestScore(bestScore)
            /\ DisplayBest(bestScore, state'.score) =
                  Max(LoadBestScore(bestScore), state'.score)
            /\ DisplayBest(bestScore, state'.score) >= state'.score
            /\ DisplayBest(bestScore, state'.score) = LoadBestScore(bestScore')
       /\ ~RunEnd => bestScore' = bestScore]_vars

\* a run has ended below the best score stored by earlier runs
C16_Witness ==
    /\ gameState = "gameover"
    /\ runs = 1
    /\ state.score > 0
    /\ LoadBestScore(bestScore) > state.score


\* now - lastTime of a frame, ms: none, a millisecond, ordinary frames, the
\* clamp's edge, a stall and a tab left in the background for a minute
FrameGaps == {0, 1, 40, 99, 100, 101, 250, 60000}

\* C17: every update receives a deltaTime in [0, 0.1] s however long the gap
\* between frames, so a tick moves the leader by at most 14 units, less than
\* the width of the narrowest solid obstacle (20), and the leader's x never
\* goes from the left of a solid obstacle to the right of it in one tick
C17_NoTunnelling ==
    /\ [](\A e \in FrameGaps \cup ElapsedMs :
             /\ DeltaTime(e) >= 0
             /\ DeltaTime(e) <= 100
             /\ e <= 100 => DeltaTime(e) = e)
    /\ [](\A i \in 1..Len(obstacles.obstacles) :
             Solid(obstacles.obstacles[i]) =>
                obstacles.obstacles[i].width >= 20 * Px)
    /\ [][Tick =>
            /\ \E e \in ElapsedMs :
                  hikers'[1].x - hikers[1].x = (hikers'[1].currentSpeed * DeltaTime(e)) \div 100
            /\ hikers'[1].currentSpeed <= 1400
            /\ hikers'[1].x - hikers[1].x <= 14 * Px
            /\ \A i \in 1..Len(obstacles.obstacles) :
                  LET o == obstacles.obstacles[i]
                  IN Solid(o) =>
                       /\ hikers'[1].x - hikers[1].x < o.width
                       /\ ~(hikers[1].x < o.x /\ hikers'[1].x > o.x + o.width)]_vars

\* the leader, after a stalled frame, stands inside the extent of a solid
\* obstacle it was left of one tick earlier
C17_Witness ==
    /\ gameState = "playing"
    /\ explore = "long"
    /\ \E i \in 1..Len(obstacles.obstacles) :
          LET o == obstacles.obstacles[i]
          IN /\ Solid(o)
             /\ hikers[1].x >= o.x
             /\ hikers[1].x - 10 * Px < o.x


\* the run state the claim lists: 5 agents at x = 200 - 60 i with no boost
\* and not waiting, distance = score = 0, flowMultiplier 1.0, cleared
\* counters 0, no obstacle, first spawn threshold 400, camera at 0 and no
\* gapped segment
InitialRunState ==
    /\ Len(hikers) = 5
    /\ \A i \in 1..Len(hikers) :
          /\ hikers[i].x = (200 - 60 * (i - 1)) * Px
          /\ hikers[i].index = i - 1
          /\ hikers[i].baseSpeed = BaseSpeeds[i]
          /\ hikers[i].offloadBoost = 0
          /\ ~hikers[i].isWaiting
    /\ state.distance = 0
    /\ state.score = 0
    /\ state.flowMultiplier = 1000
    /\ state.obstaclesCleared = 0
    /\ state.runStartX = 200 * Px
    /\ obstacles.obstaclesCleared = 0
    /\ obstacles.obstacles = << >>
    /\ obstacles.nextObstacleDistance = 400 * Px
    /\ terrain.cameraX = 0
    /\ Len(terrain.segments) = InitialSegments
    /\ \A k \in 1..Len(terrain.segments) :
          /\ ~terrain.segments[k].hasGap
          /\ terrain.segments[k].x = (k - 1) * SegmentWidth * Px

\* C18: every entry into playing through startGame, from the title or by
\* retry after a run, starts from the same initial run state whatever the
\* previous run left behind
C18_StartGameResets ==
    [][StartGame => gameState' = "playing" /\ inputEnabled' /\ InitialRunState']_vars

\* the state after a retry: a fresh run entered from a run that ended with
\* obstacles spawned and a gapped segment
C18_Witness ==
    /\ gameState = "playing"
    /\ runs = 1
    /\ InitialRunState


\* the leader's effective speed for the tick that is being taken
LeaderSpeed == hikers[1].baseSpeed + hikers[1].offloadBoost

\* the gap follower i (1-based) measures in the tick being taken: to the
\* position the hiker ahead has already been moved to
MeasuredGap(i) == hikers'[i - 1].x - hikers[i].x

\* C21 (as stated): after every tick every follower's currentSpeed is at most
\* the leader's speed of that tick, in all three spacing bands
C21_FollowersBoundedByLeader ==
    state.distance > 0 =>
        \A i \in 2..Len(hikers) : hikers[i].currentSpeed <= hikers[1].currentSpeed

\* C21 (amended): a tick leaves the leader at its effective speed and every
\* follower that measured a gap of at most 90 (waiting or tracking) at a
\* speed no greater than the leader's; a follower that measured more than 90
\* walks at 1.2 baseSpeed whatever the leader's speed is
C21_BoundedUnlessCatchingUp ==
    [][Tick =>
         /\ hikers'[1].currentSpeed = LeaderSpeed
         /\ \A i \in 2..Len(hikers) :
               /\ MeasuredGap(i) * 10 <= Spacing * Px * 15 =>
                     hikers'[i].currentSpeed <= LeaderSpeed
               /\ MeasuredGap(i) * 10 > Spacing * Px * 15 =>
                     hikers'[i].currentSpeed = (hikers[i].baseSpeed * 12) \div 10]_vars

\* after a tick one follower is catching up faster than the leader walks
\* while another is tracking the leader's speed
C21_Witness ==
    /\ state.distance > 0
    /\ Len(hikers) = 5
    /\ \E i \in 2..Len(hikers) :
          /\ hikers[i].currentSpeed = (hikers[i].baseSpeed * 12) \div 10
          /\ hikers[i].currentSpeed > hikers[1].currentSpeed
    /\ \E i \in 2..Len(hikers) :
          /\ ~hikers[i].isWaiting
          /\ hikers[i].currentSpeed = hikers[1].currentSpeed


\* targetSpeed of follower i in the tick being taken
TargetSpeed(i) == Min(hikers[i].baseSpeed + hikers[i].offloadBoost, LeaderSpeed)

\* C22: in a tick follower i's speed is decided by the gap to the position the
\* agent ahead has already been moved to: below 48 it is waiting at
\* max(0, targetSpeed gap / 60), above 90 it is not waiting and moves at
\* 1.2 baseSpeed, otherwise it is not waiting and moves at targetSpeed =
\* min(baseSpeed + offloadBoost, leaderSpeed); currentSpeed is never negative
C22_SpeedBands ==
    /\ [](\A i \in 1..Len(hikers) : hikers[i].currentSpeed >= 0)
    /\ [][Tick =>
            /\ ~hikers'[1].isWaiting
            /\ \A i \in 2..Len(hikers) :
                  LET gap == MeasuredGap(i)
                  IN /\ hikers'[i].isWaiting <=> gap < 48 * Px
                     /\ gap < 48 * Px =>
                           hikers'[i].currentSpeed =
                              Max(0, (TargetSpeed(i) * gap) \div (60 * Px))
                     /\ gap > 90 * Px =>
                           hikers'[i].currentSpeed = (hikers[i].baseSpeed * 12) \div 10
                     /\ gap >= 48 * Px /\ gap <= 90 * Px =>
                           hikers'[i].currentSpeed = TargetSpeed(i)
            /\ \E e \in ElapsedMs : \A i \in 1..Len(hikers) :
                  hikers'[i].x = hikers[i].x + (hikers'[i].currentSpeed * DeltaTime(e)) \div 100]_vars

\* after a tick one follower is waiting behind a slowed one, at a speed below
\* its target, while the slowed one tracks its own target below the leader's speed
C22_Witness ==
    /\ state.distance > 0
    /\ offloadsUsed = MaxOffloads
    /\ \E i \in 2..Len(hikers) :
          /\ hikers[i].isWaiting
          /\ hikers[i].currentSpeed > 0
          /\ hikers[i].currentSpeed < hikers[i - 1].currentSpeed
    /\ \E i \in 2..Len(hikers) :
          /\ ~hikers[i].isWaiting
          /\ hikers[i].currentSpeed < hikers[1].currentSpeed


\* C23: a tick moves every agent's offloadBoost toward zero by 0.5 deltaTime
\* and never across it: a positive boost does not become negative nor a
\* negative one positive, so the leader's boost is never negative and a
\* follower's never positive
C23_BoostNeverCrossesZero ==
    /\ [](Len(hikers) > 0 =>
             /\ hikers[1].offloadBoost >= 0
             /\ \A i \in 2..Len(hikers) : hikers[i].offloadBoost <= 0)
    /\ [][Tick =>
            \A i \in 1..Len(hikers) :
               /\ hikers[i].offloadBoost > 0 =>
                     /\ hikers'[i].offloadBoost >= 0
                     /\ hikers'[i].offloadBoost < hikers[i].offloadBoost
               /\ hikers[i].offloadBoost < 0 =>
                     /\ hikers'[i].offloadBoost <= 0
                     /\ hikers'[i].offloadBoost > hikers[i].offloadBoost
               /\ hikers[i].offloadBoost = 0 => hikers'[i].offloadBoost = 0]_vars


\* C24: once no further offload occurs, continued playing ticks with positive
\* deltaTime up to 0.1 bring every agent's offloadBoost to exactly 0, where
\* it stays
C24_BoostEventuallyZero ==
    <>[](\A i \in 1..Len(hikers) : hikers[i].offloadBoost = 0)


\* the gap obstacles of the list ob that sit on the segment starting at segX
GapsOn(ob, segX) ==
    {i \in 1..Len(ob.obstacles) :
        ob.obstacles[i].type = "gap" /\ ob.obstacles[i].segment = segX}

\* whether terrain ter holds a gapped segment starting at segX
Gapped(ter, segX) ==
    \E k \in 1..Len(ter.segments) :
        ter.segments[k].x = segX /\ ter.segments[k].hasGap

SameObstacle(i, j) ==
    /\ obstacles'.obstacles[j].x = obstacles.obstacles[i].x
    /\ obstacles'.obstacles[j].type = obstacles.obstacles[i].type

\* C26: an obstacle only moves forward through spawned, clearing, cleared,
\* pruned: clearing never reverts, cleared is set only on a clearing
\* obstacle, clearProgress is 0 until the tap and never decreases, and every
\* obstacle held has clearProgress in [0, 1]
C26_ObstacleLifecycle ==
    /\ [](\A i \in 1..Len(obstacles.obstacles) :
             LET o == obstacles.obstacles[i]
             IN /\ o.clearProgress >= 0
                /\ o.clearProgress <= 1000
                /\ ~o.clearing => o.clearProgress = 0
                /\ o.cleared => o.clearing)
    /\ [][StartGame \/
          /\ \A i \in 1..Len(obstacles.obstacles) :
             \A j \in 1..Len(obstacles'.obstacles) :
                SameObstacle(i, j) =>
                   /\ obstacles.obstacles[i].clearing => obstacles'.obstacles[j].clearing
                   /\ obstacles.obstacles[i].cleared => obstacles'.obstacles[j].cleared
                   /\ obstacles'.obstacles[j].clearProgress >=
                         obstacles.obstacles[i].clearProgress
                   /\ obstacles'.obstacles[j].clearProgress >
                         obstacles.obstacles[i].clearProgress =>
                            obstacles.obstacles[i].clearing
          \* a new obstacle is spawned untapped
          /\ \A j \in 1..Len(obstacles'.obstacles) :
                (\A i \in 1..Len(obstacles.obstacles) : ~SameObstacle(i, j)) =>
                   /\ ~obstacles'.obstacles[j].clearing
                   /\ ~obstacles'.obstacles[j].cleared
                   /\ obstacles'.obstacles[j].clearProgress = 0
          \* an untapped obstacle leaves the list only behind the camera
          /\ \A i \in 1..Len(obstacles.obstacles) :
                (\A j \in 1..Len(obstacles'.obstacles) : ~SameObstacle(i, j)) =>
                   \/ obstacles.obstacles[i].clearing
                   \/ obstacles.obstacles[i].x <= terrain'.cameraX - 200 * Px]_vars

\* a wall, platform or barrier part of the way through its clearing, after
\* short and clamped frames
C26_Witness ==
    /\ gameState = "playing"
    /\ \E i \in 1..Len(obstacles.obstacles) :
          LET o == obstacles.obstacles[i]
          IN /\ o.type # "gap"
             /\ o.clearing
             /\ ~o.cleared
             /\ o.clearProgress >= 600
             /\ o.clearProgress < 1000


\* some obstacle of the list is clearing
SomeClearing ==
    \E i \in 1..Len(obstacles.obstacles) : obstacles.obstacles[i].clearing

\* a step in which ObstacleSystem.update changed the list: no tap was counted
ListUpdated ==
    /\ obstacles' # obstacles
    /\ obstacles'.obstaclesCleared = obstacles.obstaclesCleared

\* C27: while the game keeps playing, an obstacle that entered clearing is
\* eventually cleared and removed: every tick adds 2 deltaTime to its
\* clearProgress, the update in which that reaches 1.0 removes it, and no
\* obstacle with cleared = true is in the list after any update
C27_ClearingEnds ==
    /\ [](\A i \in 1..Len(obstacles.obstacles) : ~obstacles.obstacles[i].cleared)
    /\ [][ListUpdated =>
            \E e \in ElapsedMs :
               \A i \in 1..Len(obstacles.obstacles) :
                  LET o == obstacles.obstacles[i]
                      p == o.clearProgress + 2 * DeltaTime(e)
                  IN o.clearing =>
                        /\ DeltaTime(e) > 0
                        /\ IF p >= 1000
                           THEN \A j \in 1..Len(obstacles'.obstacles) : ~SameObstacle(i, j)
                           ELSE \E j \in 1..Len(obstacles'.obstacles) :
                                   /\ SameObstacle(i, j)
                                   /\ obstacles'.obstacles[j].clearing
                                   /\ obstacles'.obstacles[j].clearProgress = p]_vars
    /\ (SomeClearing ~> ~SomeClearing)

\* both obstacles of a list were tapped and have been removed
C27_Witness ==
    /\ gameState = "playing"
    /\ obstacles.obstaclesCleared = 2
    /\ obstacles.obstacles = << >>


\* r = 180 - 60 min(1, 0.0002 d), cpx, for a distance d in cpx
SpawnRateAt(d) == 180 * Px - (60 * Px * Min(1000, d \div 500)) \div 1000

\* the obstacles of the list after a step that were not in the list before it
Spawned ==
    {j \in 1..Len(obstacles'.obstacles) :
        \A i \in 1..Len(obstacles.obstacles) : ~SameObstacle(i, j)}

\* C28: a tick spawns at most one obstacle and none before the distance
\* exceeds 400; a spawn triggered at distance d puts the next threshold in
\* [d + r, d + r + 80) with r = 180 - 60 min(1, 0.0002 d) in [120, 180], so
\* the threshold is above the distance after a trigger and two triggers are
\* more than 120 apart
C28_SpawnPacing ==
    /\ [](\A d \in FnDistances \ {0} : \A j \in Jitters :
             LET ob == [obstacles EXCEPT !.nextObstacleDistance = d - 1]
                 ou == ObstaclesUpdate(ob, 100, terrain, d, 100, j)
             IN /\ SpawnRateAt(d) >= 120 * Px
                /\ SpawnRateAt(d) <= 180 * Px
                /\ ou.ob.nextObstacleDistance >= d + SpawnRateAt(d)
                /\ ou.ob.nextObstacleDistance < d + SpawnRateAt(d) + 80 * Px
                /\ Len(ou.ob.obstacles) <= Len(obstacles.obstacles) + 1)
    /\ [](gameState = "playing" /\ state.distance > 0 =>
             obstacles.nextObstacleDistance >= state.distance)
    /\ [][Tick =>
            LET d == state'.distance
            IN /\ Cardinality(Spawned) <= 1
               /\ Spawned # {} =>
                     /\ d > 400 * Px
                     /\ d > obstacles.nextObstacleDistance
               /\ d > obstacles.nextObstacleDistance =>
                     /\ Cardinality(Spawned) = 1
                     /\ obstacles'.nextObstacleDistance >= d + SpawnRateAt(d)
                     /\ obstacles'.nextObstacleDistance < d + SpawnRateAt(d) + 80 * Px
                     /\ obstacles'.nextObstacleDistance > d + 120 * Px
                     /\ obstacles'.nextObstacleDistance >
                           obstacles.nextObstacleDistance + 120 * Px
               /\ d <= obstacles.nextObstacleDistance =>
                     /\ Spawned = {}
                     /\ obstacles'.nextObstacleDistance = obstacles.nextObstacleDistance]_vars

\* the second spawn of a run has been triggered
C28_Witness ==
    /\ gameState = "playing"
    /\ Len(obstacles.obstacles) = 2
    /\ obstacles.obstaclesCleared = 0
    /\ obstacles.nextObstacleDistance > state.distance + 120 * Px
    /\ obstacles.nextObstacleDistance > (FirstSpawn + 2 * MinSpawnRate) * Px


\* C29: after any sequence of terrain updates in a run the segment list is
\* ordered by x, every segment is 150 wide and starts where the one before
\* it ends, pruning removes only a prefix of the list (the segments whose
\* right edge is at most camera - 100), and the strip extends to at least
\* camera + viewWidth + 200
C29_TerrainContiguous ==
    /\ [](/\ \A k \in 2..Len(terrain.segments) :
                terrain.segments[k].x = terrain.segments[k - 1].x + 150 * Px
          /\ Len(terrain.segments) > 0 =>
                terrain.nextSegmentX =
                   terrain.segments[Len(terrain.segments)].x + 150 * Px
          /\ state.distance > 0 =>
                /\ Len(terrain.segments) > 0
                /\ terrain.nextSegmentX >=
                      terrain.cameraX + terrain.canvasWidth + 200 * Px
                /\ \A k \in 1..Len(terrain.segments) :
                      terrain.segments[k].x + 150 * Px > terrain.cameraX - 100 * Px)
    /\ [][Tick =>
            /\ terrain'.cameraX >= terrain.cameraX
            /\ \A k \in 1..Len(terrain.segments) :
                  LET kept == \E m \in 1..Len(terrain'.segments) :
                                 terrain'.segments[m].x = terrain.segments[k].x
                  IN /\ kept <=> terrain.segments[k].x + 150 * Px >
                                    terrain'.cameraX - 100 * Px
                     \* what is removed is a prefix
                     /\ ~kept => \A n \in 1..k :
                           \A m \in 1..Len(terrain'.segments) :
                              terrain'.segments[m].x # terrain.segments[n].x
            /\ \A m \in 1..Len(terrain'.segments) :
                  \/ \E k \in 1..Len(terrain.segments) :
                        terrain.segments[k].x = terrain'.segments[m].x
                  \/ terrain'.segments[m].x >= terrain.nextSegmentX]_vars

\* segments have been pruned behind the camera and generated ahead of it
C29_Witness ==
    /\ state.distance > 0
    /\ Len(terrain.segments) > 0
    /\ terrain.segments[1].x >= 2 * SegmentWidth * Px
    /\ terrain.nextSegmentX > InitialSegments * SegmentWidth * Px


\* a tick in which ObstacleSystem.update triggered a spawn
Triggered == Tick /\ state'.distance > obstacles.nextObstacleDistance

\* the spawn position of the tick being taken: the terrain has already been
\* advanced when the spawn looks for its segment
SpawnX == terrain'.cameraX + terrain'.canvasWidth + 200 * Px

\* the segments of the advanced terrain that cover the spawn position
Covering ==
    {k \in 1..Len(terrain'.segments) :
        /\ SpawnX >= terrain'.segments[k].x
        /\ SpawnX < terrain'.segments[k].x + SegmentWidth * Px}

\* the gap flags of the segments of terrain ter
GapFlags(ter) == {<<ter.segments[k].x, ter.segments[k].hasGap>> : k \in 1..Len(ter.segments)}

\* C30 (as stated): whenever a spawn is triggered the advanced terrain holds
\* a segment covering camera + viewWidth + 200, exactly one obstacle is added
\* and the spawn is never skipped
C30_SpawnNeverSkipped ==
    [][Triggered => Covering # {} /\ Cardinality(Spawned) = 1]_vars

\* C30 (amended): a triggered spawn finds a covering segment unless
\* camera + viewWidth + 200 is exactly the right end of the generated strip;
\* with a covering segment exactly one obstacle is added, on that segment;
\* without one no obstacle is added and no segment flag changes; the spawn
\* threshold advances either way
C30_SpawnSkippedOnlyAtStripEnd ==
    [][Triggered =>
         /\ Covering = {} <=> SpawnX = terrain'.nextSegmentX
         /\ SpawnX <= terrain'.nextSegmentX
         /\ Covering # {} =>
               /\ Cardinality(Covering) = 1
               /\ Cardinality(Spawned) = 1
               /\ \A j \in Spawned : \A k \in Covering :
                     /\ obstacles'.obstacles[j].x >= terrain'.segments[k].x
                     /\ obstacles'.obstacles[j].x <
                           terrain'.segments[k].x + SegmentWidth * Px
         /\ Covering = {} =>
               /\ Spawned = {}
               /\ Len(obstacles'.obstacles) <= Len(obstacles.obstacles)
               /\ GapFlags(terrain') \subseteq
                     GapFlags(terrain) \cup
                        {<<x, FALSE>> : x \in {terrain'.segments[k].x :
                                                  k \in 1..Len(terrain'.segments)}}
         /\ obstacles'.nextObstacleDistance > state'.distance
         /\ obstacles'.nextObstacleDistance > obstacles.nextObstacleDistance]_vars

\* the first spawn of a run was triggered and skipped: the threshold has
\* advanced and no obstacle was ever added
C30_Witness ==
    /\ gameState = "playing"
    /\ obstacles.nextObstacleDistance > FirstSpawn * Px
    /\ obstacles.obstacles = << >>
    /\ obstacles.obstaclesCleared = 0
    /\ terrain.cameraX + terrain.canvasWidth + 200 * Px = terrain.nextSegmentX



-----------------------------------------------------------------------------
\* the segments of ter whose span [x, x + width) holds the point x
CoveringSegs(ter, x) ==
    {k \in 1..Len(ter.segments) :
        /\ x >= ter.segments[k].x
        /\ x < ter.segments[k].x + SegmentWidth * Px}

\* the points the ground query is compared at: where the hikers stand, and
\* one unit on either side of both ends of every segment
GroundProbes ==
    {hikers[i].x : i \in 1..Len(hikers)}
    \cup UNION {{terrain.segments[k].x - 1, terrain.segments[k].x,
                 terrain.segments[k].x + SegmentWidth * Px - 1,
                 terrain.segments[k].x + SegmentWidth * Px} :
                   k \in 1..Len(terrain.segments)}

\* C31: getYAtX(x) is the height of the segment covering x if and only if
\* one covers x and it has no gap, and null otherwise; a hiker whose ground
\* query in a tick is null keeps its targetY (which is never 0 nor null),
\* its y eases toward that targetY, and the tick ends in playing or gameover.
C31_GroundQuery ==
    /\ [](\A x \in GroundProbes :
            LET c == CoveringSegs(terrain, x)
            IN /\ Cardinality(c) <= 1
               /\ (c # {} /\ \A k \in c : ~terrain.segments[k].hasGap)
                     => GetYAtX(terrain, x) = terrain.baseY
               /\ (c = {} \/ \E k \in c : terrain.segments[k].hasGap)
                     => GetYAtX(terrain, x) = Null)
    /\ [](\A i \in 1..Len(hikers) : hikers[i].targetY \notin {0, Null, NaN})
    /\ [][Tick =>
            /\ gameState' \in {"playing", "gameover"}
            /\ \A i \in 1..Len(hikers) :
                  LET c == CoveringSegs(terrain, hikers'[i].x)
                      noGround == c = {} \/ \E k \in c : terrain.segments[k].hasGap
                  IN /\ noGround => hikers'[i].targetY = hikers[i].targetY
                     /\ ~noGround => hikers'[i].targetY = terrain.baseY
                     /\ \E e \in ElapsedMs :
                           hikers'[i].y = hikers[i].y
                              + ((hikers'[i].targetY - hikers[i].y) * 5
                                    * DeltaTime(e)) \div 1000]_vars

\* a run that went on after a tick in which the last hiker, still left of
\* the first segment, had no ground under it
C31_Witness ==
    /\ gameState = "playing"
    /\ state.distance > 0
    /\ CoveringSegs(terrain, hikers[5].x) = {}
    /\ hikers[5].targetY = terrain.baseY


-----------------------------------------------------------------------------
\* the box of obstacle o, grown by 20 px on every side, holds the point
InPaddedBox(o, wx, wy) ==
    /\ o.x - 20 * Px <= wx /\ wx <= o.x + o.width + 20 * Px
    /\ o.y - o.height - 20 * Px <= wy /\ wy <= o.y + 20 * Px

\* the first obstacle among those with the indices in cons whose grown box
\* holds the point, 0 if there is none
FirstHit(cons, p) ==
    LET hit == {i \in cons : InPaddedBox(obstacles.obstacles[i], p[1], p[2])}
    IN IF hit = {} THEN 0 ELSE CHOOSE m \in hit : \A n \in hit : m <= n

\* C34 as stated: hitTest looks at the obstacles checkCollision looks at,
\* those neither cleared nor clearing nor of type gap
C34_HitTestSkipsGaps ==
    \A p \in HitProbes :
       HitTest(obstacles.obstacles, p[1], p[2]) =
          FirstHit({i \in 1..Len(obstacles.obstacles) :
                       /\ ~obstacles.obstacles[i].cleared
                       /\ ~obstacles.obstacles[i].clearing
                       /\ obstacles.obstacles[i].type # "gap"}, p)

\* C34: hitTest returns the first obstacle that is neither cleared nor
\* clearing, gaps included, whose box grown by 20 on every side holds the
\* point, and null if there is none; it never returns a cleared or clearing one.
C34_HitTestIncludesGaps ==
    \A p \in HitProbes :
       LET r == HitTest(obstacles.obstacles, p[1], p[2])
       IN /\ r = FirstHit({i \in 1..Len(obstacles.obstacles) :
                              /\ ~obstacles.obstacles[i].cleared
                              /\ ~obstacles.obstacles[i].clearing}, p)
          /\ r # 0 => /\ ~obstacles.obstacles[r].cleared
                      /\ ~obstacles.obstacles[r].clearing

\* a tapped wall followed by an untapped gap: at the corner of the wall's
\* grown box that lies on the edge of the gap's, hitTest passes over the
\* clearing wall and returns the gap
C34_Witness ==
    /\ Len(obstacles.obstacles) = 2
    /\ obstacles.obstacles[1].type = "wall"
    /\ obstacles.obstacles[1].clearing
    /\ obstacles.obstacles[2].type = "gap"
    /\ ~obstacles.obstacles[2].clearing
    /\ InPaddedBox(obstacles.obstacles[1], obstacles.obstacles[1].x - 20 * Px,
                   obstacles.obstacles[1].y + 20 * Px)
    /\ HitTest(obstacles.obstacles, obstacles.obstacles[1].x - 20 * Px,
               obstacles.obstacles[1].y + 20 * Px) = 2



-----------------------------------------------------------------------------
\* the untapped obstacles whose box grown by 20 px holds the point p
ObstaclesUnder(p) ==
    {i \in 1..Len(obstacles.obstacles) :
        /\ ~obstacles.obstacles[i].cleared
        /\ ~obstacles.obstacles[i].clearing
        /\ InPaddedBox(obstacles.obstacles[i], p[1], p[2])}

\* the hikers less than 36 px away from the point p (a hiker 36 px or more
\* away along one axis is not; the squares are taken for the others)
HikersUnder(p) ==
    {i \in 1..Len(hikers) :
        /\ Abs(p[1] - hikers[i].x) < 36 * Px
        /\ Abs(p[2] - hikers[i].y) < 36 * Px
        /\ (p[1] - hikers[i].x) * (p[1] - hikers[i].x)
             + (p[2] - hikers[i].y) * (p[2] - hikers[i].y) < (36 * Px) * (36 * Px)}

Lowest(S) == CHOOSE m \in S : \A n \in S : m <= n

\* points around the hikers: where each stands, 36 px to its right and one
\* unit less, and half-way to the hiker behind
HikerProbes ==
    UNION {{<<hikers[i].x, hikers[i].y>>,
            <<hikers[i].x + 36 * Px, hikers[i].y>>,
            <<hikers[i].x + 36 * Px - 1, hikers[i].y>>,
            <<(hikers[i].x + hikers[IF i < Len(hikers) THEN i + 1 ELSE i].x) \div 2,
              hikers[i].y>>} : i \in 1..Len(hikers)}

\* a step of a pointerdown that changed the simulation: neither a frame, nor
\* a transition, nor the reset of startGame
TapStep ==
    /\ UNCHANGED <<gameState, state>>
    /\ simvars' # simvars
    /\ ~(hikers' = HikersInit(StartX * Px, CanvasHeightPx * 70)
           /\ obstacles' = ObstaclesInit)

\* the tap at p cleared the first untapped obstacle under it and offloaded nobody
ClearedAt(p) ==
    /\ ObstaclesUnder(p) # {}
    /\ obstacles'.obstacles =
          [obstacles.obstacles EXCEPT ![Lowest(ObstaclesUnder(p))].clearing = TRUE]
    /\ obstacles'.obstaclesCleared = obstacles.obstaclesCleared + 1
    /\ \A i \in 1..Len(hikers) :
          hikers'[i] = [hikers[i] EXCEPT !.pulseTime = PulseMs]

\* the tap at p, with no obstacle under it, offloaded the first hiker in reach
OffloadedAt(p) ==
    /\ ObstaclesUnder(p) = {}
    /\ HikersUnder(p) # {}
    /\ Lowest(HikersUnder(p)) > 1
    /\ UNCHANGED <<obstacles, terrain>>
    /\ \A i \in 1..Len(hikers) :
          hikers'[i] = [hikers[i] EXCEPT
             !.pulseTime = PulseMs,
             !.offloadBoost = IF i = Lowest(HikersUnder(p)) THEN -200
                              ELSE IF i = 1 THEN Max(@, 400) ELSE @]

-----------------------------------------------------------------------------
\* C36: the pointerdown listener is attached exactly while the game is
\* playing; on the title screen, paused or after the run has ended no step
\* that leaves the game in that state (a frame, a pointer event) clears an
\* obstacle, offloads a hiker or changes a counter or the stored best score.
C36_InputOnlyWhilePlaying ==
    /\ [](inputEnabled <=> gameState = "playing")
    /\ [][gameState # "playing" /\ gameState' = gameState =>
             UNCHANGED <<simvars, bestScore, inputEnabled>>]_vars

\* the game is paused, and it is over, with an untapped obstacle on the track
\* and a follower standing where a tap point is: a delivered tap would act
C36_Witness ==
    /\ gameState \in {"paused", "gameover"}
    /\ ~inputEnabled
    /\ \E p \in TapPoints :
          /\ ObstaclesUnder(p) # {}
          /\ ClearObstacle(obstacles, terrain, Lowest(ObstaclesUnder(p))).ret
    /\ \E p \in TapPoints :
          /\ ObstaclesUnder(p) = {}
          /\ HikersUnder(p) # {}
          /\ OffloadHiker(hikers, Lowest(HikersUnder(p)) - 1) # hikers



-----------------------------------------------------------------------------
\* C39: endGame runs at most once per step, and only in a frame that updated
\* a playing game; it leaves the game over with input disabled, and from
\* then until startGame no step changes the simulation, the stored best
\* score or the number of ended runs.
C39_RunEndsOnce ==
    [][/\ runs' \in {runs, runs + 1}
       /\ (runs' = runs + 1 \/ (gameState' = "gameover" /\ gameState # "gameover")) =>
             /\ gameState = "playing" /\ Tick
             /\ runs' = runs + 1
             /\ gameState' = "gameover" /\ ~inputEnabled'
             /\ FailureOf(hikers', terrain', obstacles') # "none"
             /\ bestScore' = SaveBestScore(bestScore, state'.score)[2]
       /\ gameState = "playing" /\ Tick
            /\ FailureOf(hikers', terrain', obstacles') # "none" => runs' = runs + 1
       /\ gameState \in {"gameover", "title"} /\ ~StartGame =>
             /\ UNCHANGED <<simvars, bestScore, runs>>
             /\ gameState' \in {"gameover", "title"}]_vars

\* a run has ended and written its score as the best one, and the game is
\* still over or back on the title screen
C39_Witness ==
    /\ gameState \in {"gameover", "title"}
    /\ runs = 1
    /\ state.score > 0
    /\ bestScore = state.score



-----------------------------------------------------------------------------
\* the camera's follow target for a leader at herbieX: max(0, herbieX - 0.3 w)
FollowTarget(ter, herbieX) == Max(0, herbieX - (3 * ter.canvasWidth) \div 10)

\* the x of the segments of ter
SegmentXs(ter) == {ter.segments[k].x : k \in 1..Len(ter.segments)}

\* C38: within a run the camera never moves back and is never ahead of its
\* follow target max(0, leaderX - 0.3 viewWidth); every segment and every
\* untapped obstacle a tick drops lies wholly behind the leader, and after
\* every tick some segment covers the leader's x.
C38_CameraFollowsLeader ==
    /\ [](Len(hikers) > 0 =>
            /\ terrain.cameraX >= 0
            /\ terrain.cameraX <= FollowTarget(terrain, hikers[1].x))
    /\ [][~StartGame => terrain'.cameraX >= terrain.cameraX]_vars
    /\ [][Tick =>
            /\ terrain'.cameraX <= hikers'[1].x
            /\ \A x \in SegmentXs(terrain) \ SegmentXs(terrain') :
                  x + SegmentWidth * Px <= hikers'[1].x
            /\ \A i \in 1..Len(obstacles.obstacles) :
                  (/\ ~obstacles.obstacles[i].clearing
                   /\ \A j \in 1..Len(obstacles'.obstacles) : ~SameObstacle(i, j))
                  => obstacles.obstacles[i].x + obstacles.obstacles[i].width
                        <= hikers'[1].x
            /\ CoveringSegs(terrain', hikers'[1].x) # {}]_vars

\* the camera has left the start, lags behind its target, and the segments
\* that began the strip have been dropped behind the leader
C38_Witness ==
    /\ gameState = "playing"
    /\ terrain.cameraX > 0
    /\ terrain.cameraX < FollowTarget(terrain, hikers[1].x)
    /\ 0 \notin SegmentXs(terrain)
    /\ CoveringSegs(terrain, hikers[1].x) # {}



-----------------------------------------------------------------------------
\* obstacle o is a gap that has not been tapped
UntappedGap(o) == o.type = "gap" /\ ~o.clearing /\ ~o.cleared

\* C37: every untapped gap obstacle in the list lies on a segment whose
\* hasGap is true, and while the game is playing the leader does not stand
\* inside the span of an untapped gap.
C37_UntappedGapIsOpen ==
    \A i \in 1..Len(obstacles.obstacles) :
       UntappedGap(obstacles.obstacles[i]) =>
          /\ Gapped(terrain, obstacles.obstacles[i].segment)
          /\ gameState = "playing" =>
                ~(/\ hikers[1].x >= obstacles.obstacles[i].x
                  /\ hikers[1].x < obstacles.obstacles[i].x + obstacles.obstacles[i].width)



\* a step in which a pending auto-dismiss timer fired
TimerFired == ui'.timers < ui.timers

\* C32: whenever the onboarding auto-dismiss timer fires, in whatever state
\* the game is, the step sets the onboarding flag and hides the prompt and
\* changes nothing else: no simulation state, no gameState, nothing else of
\* the presentation; and once the prompt is dismissed it stays dismissed and
\* hidden, whatever startGame runs later.
C32_TimerOnlyDismisses ==
    /\ [](ui.onboardingDismissed => ui.onboardingHidden)
    /\ [][/\ TimerFired =>
              /\ UNCHANGED coreVars
              /\ ui' = [ui EXCEPT !.onboardingDismissed = TRUE,
                                  !.onboardingHidden = TRUE,
                                  !.timers = @ - 1]
          /\ ui.onboardingDismissed => ui'.onboardingDismissed]_vars

\* every timer that was armed has fired, the run it was armed in is over, and
\* a later run was started without the prompt
C32_Witness ==
    /\ ui.onboardingDismissed
    /\ ui.timers = 0
    /\ ui.onboardingHidden
    /\ runs = 1
    /\ gameState = "playing"



\* a step that is the tick of a frame `elapsed` ms after the previous one
TickAfter(elapsed) ==
    /\ gameState = "playing"
    /\ state'.distance > state.distance
    /\ hikers' = HikersUpdate(hikers, DeltaTime(elapsed), terrain)

\* C35: during play the palette and the audio get the flow multiplier, and
\* the HUD gets its counters, at most once per 100 ms of wall clock: a tick
\* that pushes comes at least 100 ms after the previous push to the same
\* collaborator.
C35_PushesThrottled ==
    [][\A e \in UiElapsedMs :
          TickAfter(e) =>
             /\ ui'.shiftAge = 0 => ui.shiftAge + e >= FlowUpdateMs
             /\ ui'.flowAge = 0 => ui.flowAge + e >= FlowUpdateMs]_vars

=============================================================================
